---- MODULE Spec2Model ----
(***************************************************************************)
(* Service-request lifecycle of app-backend: the ServiceRequest collection *)
(* (models/ServiceRequest.js), the handlers of serviceRequestController,   *)
(* the validation middleware of the service-request routes, the catalog    *)
(* entries a request refers to, and the status-update email; and the       *)
(* registration, login and password reset of authController over the User  *)
(* collection (models/User).                                               *)
(*                                                                         *)
(* Every handler is an async function: it runs up to its next await, and   *)
(* other handlers run while it waits.  A handler is therefore a sequence   *)
(* of steps, one per database or mail round trip, run by a worker p.       *)
(*                                                                         *)
(* Strings that the code matches against a regular expression (email,      *)
(* phone) are sequences of one-character strings.  Fields of the schema    *)
(* that no handler of the controller reads or writes (timeline, pricing,   *)
(* deliverables, timestamps, addedAt) are left out.                        *)
(***************************************************************************)
EXTENDS Integers, Sequences, FiniteSets, TLC

\* ------------------------------------------------------------------ bounds
\* handlers in flight at the same time
NumWorkers == 2
\* handler calls in one behaviour
MaxCalls == 2
\* last value of Date.now()
MaxClock == 1

\* --------------------------------------------------------------- constants
\* JavaScript undefined / null in a string-valued position
NULL == "<undefined>"

validStatuses ==
  {"submitted", "reviewing", "in-progress", "revision", "completed",
   "delivered", "cancelled"}

validPriorities == {"low", "medium", "high", "urgent"}

requestTypeEnum == {"service", "combo"}

Digits == {"0", "1", "2", "3", "4", "5", "6", "7", "8", "9"}

\* ---------------------------------------------------------- input alphabets
Workers == 1..NumWorkers

\* catalog identifiers a client can send; svc9 was never created
ServiceIds == {"svc1", "svc9"}
ComboIds == {"cmb1"}
CategoryIds == {"cat1"}
CatalogIds == ServiceIds \cup ComboIds \cup CategoryIds

\* Math.random().toString(36).substr(2, 4).toUpperCase()
Rands == {"K3F9", "ZQ0A"}

RequestIds == [ts : 0..MaxClock, rnd : Rands]

Emails ==
  { <<"j", "@", "x", ".", "c">>,       \* well formed
    <<"j", "x", ".", "c">>,            \* no @
    <<>> }                             \* missing

Phones ==
  { <<"9", "8", "7", "6", "5", "4", "3", "2", "1", "0">>,   \* well formed
    <<"1", "8", "7", "6", "5", "4", "3", "2", "1", "0">>,   \* starts with 1
    <<>> }                                                  \* missing

ValidEmail == <<"j", "@", "x", ".", "c">>
ValidPhone == <<"9", "8", "7", "6", "5", "4", "3", "2", "1", "0">>

ClientInfo(name, email, phone) ==
  [fullName |-> name, email |-> email, phone |-> phone]

\* the well-formed clientInfo and every clientInfo one field away from it
ClientInfos ==
  {ClientInfo(n, ValidEmail, ValidPhone) : n \in {"Jane Doe", ""}}
  \cup {ClientInfo("Jane Doe", e, ValidPhone) : e \in Emails}
  \cup {ClientInfo("Jane Doe", ValidEmail, ph) : ph \in Phones}

SelPath(cat, svc, cmb) ==
  [selectedCategory |-> cat, selectedService |-> svc,
   selectedTemplate |-> NULL, selectedCombo |-> cmb]

SelectionPaths ==
  { SelPath("cat1", "svc1", NULL), SelPath("cat1", "svc9", NULL),
    SelPath("cat1", NULL, "cmb1"), SelPath("cat1", NULL, NULL),
    SelPath(NULL, "svc1", NULL), SelPath(NULL, NULL, "cmb1") }

RequestTypeInputs == requestTypeEnum \cup {"bundle", NULL}

\* req.body.requirements: every body carries the same one
Requirements == [businessDescription |-> "Bakery in Pune", tone |-> "modern"]

Body(hasSp, sp, type, hasCi, ci, status, priority, notes) ==
  [hasSelectionPath |-> hasSp, selectionPath |-> sp, requestType |-> type,
   hasClientInfo |-> hasCi, clientInfo |-> ci, requirements |-> Requirements,
   status |-> status, priority |-> priority, adminNotes |-> notes]

\* an absent object in the body reaches the constructor as no fields at all
NoSelectionPath == SelPath(NULL, NULL, NULL)
NoClientInfo == ClientInfo("", <<>>, <<>>)

InjectedNotes == <<[note |-> "injected", addedBy |-> "client"]>>

ValidClient == ClientInfo("Jane Doe", ValidEmail, ValidPhone)

\* req.body of POST /api/service-requests.  hasSelectionPath and
\* hasClientInfo tell an absent object from a present one; status, priority
\* and adminNotes are fields a client may add to the body.
\* Every selection path with every request type; every clientInfo with a
\* complete selection and with an incomplete one; either object absent;
\* the extra fields on a body that is otherwise accepted.
Bodies ==
  {Body(TRUE, sp, t, TRUE, ValidClient, NULL, NULL, <<>>) :
     sp \in SelectionPaths, t \in RequestTypeInputs}
  \cup {Body(TRUE, sp, "service", TRUE, ci, NULL, NULL, <<>>) :
          sp \in {SelPath("cat1", "svc1", NULL), SelPath("cat1", NULL, NULL)},
          ci \in ClientInfos}
  \cup {Body(FALSE, NoSelectionPath, t, TRUE, ValidClient, NULL, NULL, <<>>) :
          t \in requestTypeEnum}
  \cup {Body(TRUE, SelPath("cat1", "svc1", NULL), t, FALSE, NoClientInfo,
              NULL, NULL, <<>>) : t \in requestTypeEnum}
  \cup {Body(TRUE, SelPath("cat1", "svc1", NULL), "service", TRUE, ValidClient,
              "completed", "urgent", InjectedNotes)}

\* the bodies the lifecycle specification submits: a service request, and
\* the same selection sent as a combo request, which lacks its combo
CoreBodies ==
  {Body(TRUE, sp, t, TRUE, ValidClient, NULL, NULL, <<>>) :
     sp \in {SelPath("cat1", "svc1", NULL)}, t \in requestTypeEnum}

\* the default status, one more status, the status deleteRequest writes, and
\* a value outside the enum; a priority of the enum and one outside it; a
\* missing note and a note; a missing addedBy and a name; an empty assignee
\* and a name
StatusInputs == {"submitted", "reviewing", "cancelled", "archived"}
PriorityInputs == {"urgent", "critical"}
NoteInputs == {NULL, "Looks good"}
AddedByInputs == {NULL, "Priya"}
AssigneeInputs == {"", "Ravi"}

\* ------------------------------------------------------------------- state
VARIABLES
  requests,   \* the ServiceRequest collection; _id is the position
  catalog,    \* Service / Combo / Category entries: "active", "inactive", "absent"
  now,        \* last reading of Date.now()
  calls,      \* per worker: the handler it runs and where it stands
  ncalls,     \* handler calls started so far
  users       \* the User collection; _id is the position

vars == <<requests, catalog, now, calls, ncalls, users>>

Exists(id) == id \in 1..Len(requests)

\* an :id that is no ObjectId (not 24 hex digits): findById and
\* findByIdAndUpdate reject with a CastError, which the handler's catch block
\* answers
MalformedId == -1

IsObjectId(id) == id # MalformedId

\* --------------------------------------------------------- schema validators
\* /^[6-9]\d{9}$/
PhoneMatch(s) ==
  /\ Len(s) = 10
  /\ s[1] \in {"6", "7", "8", "9"}
  /\ \A i \in 1..10 : s[i] \in Digits

NonSpace(c) == c \notin {" ", "\t", "\n"}

\* /\S+@\S+\.\S+/ (not anchored)
EmailMatch(s) ==
  \E i \in 1..Len(s), j \in 1..Len(s) :
    /\ i > 1 /\ s[i] = "@" /\ NonSpace(s[i - 1])
    /\ j > i + 1 /\ s[j] = "."
    /\ \A k \in (i + 1)..(j - 1) : NonSpace(s[k])
    /\ j < Len(s) /\ NonSpace(s[j + 1])

\* the paths Mongoose's validation rejects in a new ServiceRequest built
\* from (selectionPath, requestType, clientInfo)
InvalidPaths(sp, type, ci) ==
  (IF sp.selectedCategory = NULL THEN {"selectionPath.selectedCategory"} ELSE {})
  \cup (IF type = "service" /\ sp.selectedService = NULL
        THEN {"selectionPath.selectedService"} ELSE {})
  \cup (IF type = "combo" /\ sp.selectedCombo = NULL
        THEN {"selectionPath.selectedCombo"} ELSE {})
  \cup (IF type \notin requestTypeEnum THEN {"requestType"} ELSE {})
  \cup (IF ci.fullName = "" THEN {"clientInfo.fullName"} ELSE {})
  \cup (IF ci.email = <<>> \/ ~EmailMatch(ci.email) THEN {"clientInfo.email"} ELSE {})
  \cup (IF ci.phone = <<>> \/ ~PhoneMatch(ci.phone) THEN {"clientInfo.phone"} ELSE {})

\* new ServiceRequest(req.body): status, priority and adminNotes of the body
\* reach the document
NewServiceRequestFromBody(body, rid, id) ==
  [_id |-> id,
   requestId |-> rid,
   selectionPath |-> body.selectionPath,
   requestType |-> body.requestType,
   clientInfo |-> body.clientInfo,
   requirements |-> body.requirements,
   status |-> IF body.status = NULL THEN "submitted" ELSE body.status,
   priority |-> IF body.priority = NULL THEN "medium" ELSE body.priority,
   adminNotes |-> body.adminNotes,
   assignedTo |-> NULL]

\* new ServiceRequest({selectionPath, requestType, clientInfo, requirements}):
\* the four fields taken from the body, the schema's defaults for the rest
NewServiceRequest(body, rid, id) ==
  [_id |-> id,
   requestId |-> rid,
   selectionPath |-> body.selectionPath,
   requestType |-> body.requestType,
   clientInfo |-> body.clientInfo,
   requirements |-> body.requirements,
   status |-> "submitted",
   priority |-> "medium",
   adminNotes |-> <<>>,
   assignedTo |-> NULL]

\* ------------------------------------------------------------------ populate
NullRef == [_id |-> NULL, title |-> NULL]

Title(ref) == "title of " \o ref

\* populate(path, "title ..."): the referenced document, or null when the
\* path is empty or the catalog has no such entry
Populate(ref, cat) ==
  IF ref = NULL \/ cat[ref] = "absent"
  THEN NullRef
  ELSE [_id |-> ref, title |-> Title(ref)]

PopulateAll(doc, cat) ==
  [doc EXCEPT !.selectionPath =
     [selectedCategory |-> Populate(doc.selectionPath.selectedCategory, cat),
      selectedService |-> Populate(doc.selectionPath.selectedService, cat),
      selectedTemplate |-> Populate(doc.selectionPath.selectedTemplate, cat),
      selectedCombo |-> Populate(doc.selectionPath.selectedCombo, cat)]]

\* ----------------------------------------------------------------- responses
NoData == <<>>

Response(code, msg, data) == [status |-> code, message |-> msg, data |-> data]

Failure(code, msg, err) ==
  [status |-> code, message |-> msg, data |-> NoData, error |-> err]

NoResponse == [status |-> 0, message |-> "", data |-> NoData]

\* ------------------------------------------------------------------- workers
\* op: the handler; id, status, note, arg: its inputs (arg is the body of
\* createRequest, the priority, the assignee, addedBy or the requestId);
\* request: the document the handler holds in memory; sent: the calls of
\* sendStatusUpdateEmail it has made; emailResult: what they returned;
\* res: its response
Idle ==
  [pc |-> "idle", op |-> "none", id |-> 0, status |-> NULL, note |-> NULL,
   arg |-> NULL, request |-> <<>>, oldStatus |-> NULL, sent |-> <<>>,
   emailResult |-> <<>>, res |-> NoResponse]

Free(p) == calls[p].pc \in {"idle", "done"}

\* workers are interchangeable: a new call takes the first free one
Ready(p) ==
  /\ Free(p)
  /\ \A q \in Workers : q < p => ~Free(q)
  /\ ncalls < MaxCalls

\* worker p moves on to c.  The answer of a finished call stays in the state
\* until the next step of another call, which frees its worker.
Move(p, c) ==
  calls' = [q \in Workers |->
             IF q = p THEN c
             ELSE IF calls[q].pc = "done" THEN Idle ELSE calls[q]]

Start(p, c) ==
  /\ Move(p, c)
  /\ ncalls' = ncalls + 1

Call(op, id, status, note, arg) ==
  [Idle EXCEPT !.op = op, !.id = id, !.status = status, !.note = note,
               !.arg = arg]

Done(c, res) == [c EXCEPT !.pc = "done", !.res = res]

\* ------------------------------------------------------------ createRequest
\* validateServiceRequest (routes): the answer of the middleware, or
\* status 0 when it calls next()
validateServiceRequest(body) ==
  IF ~body.hasSelectionPath \/ body.requestType = NULL \/ ~body.hasClientInfo
  THEN Failure(400, "Selection path, request type, and client info are required", NULL)
  ELSE IF body.clientInfo.fullName = "" \/ body.clientInfo.email = <<>>
          \/ body.clientInfo.phone = <<>>
  THEN Failure(400, "Client name, email, and phone are required", NULL)
  ELSE NoResponse

\* the selection check without its combo branch
SelectionCheckServiceOnly(body) ==
  IF body.requestType = "service"
     /\ (body.selectionPath.selectedCategory = NULL
         \/ body.selectionPath.selectedService = NULL)
  THEN Failure(400, "Category and Service selection is required for service requests", NULL)
  ELSE NoResponse

\* lines 17-33 of createRequest: the answer, or status 0 to go on
SelectionCheck(body) ==
  IF body.requestType = "service"
     /\ (body.selectionPath.selectedCategory = NULL
         \/ body.selectionPath.selectedService = NULL)
  THEN Failure(400, "Category and Service selection is required for service requests", NULL)
  ELSE IF body.requestType = "combo" /\ body.selectionPath.selectedCombo = NULL
  THEN Failure(400, "Combo selection is required for combo requests", NULL)
  ELSE NoResponse

\* Date.now() at the next reading: the last reading or one tick later
Ticks == {t \in {now, now + 1} : t <= MaxClock}

\* POST /: middleware, selection check, new ServiceRequest, save().  The
\* constructor reads the clock for the requestId default.  save() validates,
\* then inserts; the unique index on requestId rejects a duplicate.  Both
\* failures land in the catch block (500).
createRequest(p, body) ==
  /\ Ready(p)
  /\ LET c == Call("createRequest", 0, NULL, NULL, body) IN
     IF validateServiceRequest(body).status # 0
     THEN /\ Start(p, Done(c, validateServiceRequest(body)))
          /\ UNCHANGED <<requests, now>>
     ELSE IF SelectionCheck(body).status # 0
     THEN /\ Start(p, Done(c, SelectionCheck(body)))
          /\ UNCHANGED <<requests, now>>
     ELSE \E t \in Ticks, r \in Rands :
            LET rid == [ts |-> t, rnd |-> r]
                doc == NewServiceRequest(body, rid, Len(requests) + 1)
                bad == InvalidPaths(body.selectionPath, body.requestType, body.clientInfo)
                dup == \E i \in 1..Len(requests) : requests[i].requestId = rid
            IN
            /\ now' = t
            /\ IF bad # {}
               THEN /\ Start(p, Done(c, Failure(500, "Failed to submit service request",
                                                 "ValidationError")))
                    /\ UNCHANGED requests
               ELSE IF dup
               THEN /\ Start(p, Done(c, Failure(500, "Failed to submit service request",
                                                 "E11000 duplicate key")))
                    /\ UNCHANGED requests
               ELSE /\ requests' = Append(requests, doc)
                    /\ Start(p, [c EXCEPT !.pc = "populate", !.request = <<doc>>])
  /\ UNCHANGED <<catalog, users>>

\* await newRequest.populate([...]); res.status(201)
createRequestPopulate(p) ==
  /\ calls[p].pc = "populate"
  /\ Move(p, Done(calls[p],
                  Response(201, "Service request submitted successfully",
                           <<PopulateAll(calls[p].request[1], catalog)>>)))
  /\ UNCHANGED <<requests, catalog, now, ncalls, users>>

\* ------------------------------------------------------- status-update email
\* the call of sendStatusUpdateEmail without its fifth argument
MailWithoutNote(to, name, rid, status, note) ==
  [clientEmail |-> to, clientName |-> name, requestId |-> rid,
   status |-> status, adminNote |-> NULL]

Mail(to, name, rid, status, note) ==
  [clientEmail |-> to, clientName |-> name, requestId |-> rid,
   status |-> status, adminNote |-> note]

\* sendStatusUpdateEmail: transport is what transporter.sendMail does,
\* "resolved" or "rejected"; a rejection is caught and reported in the result
sendStatusUpdateEmail(mail, transport) ==
  IF transport = "resolved"
  THEN [success |-> TRUE, error |-> NULL]
  ELSE [success |-> FALSE, error |-> "sendMail rejected"]

Transports == {"resolved", "rejected"}

\* JavaScript truthiness of a string argument
Truthy(x) == x # NULL /\ x # ""

\* updateStatus without the test of adminNote: an entry is pushed for every
\* call
updateStatusAlwaysPush(doc, newStatus, adminNote) ==
  [doc EXCEPT !.status = newStatus,
              !.adminNotes = Append(@, [note |-> adminNote, addedBy |-> "Admin"])]

\* ------------------------------------------------------ updateRequestStatus
\* schema method updateStatus, on the document in memory
updateStatus(doc, newStatus, adminNote) ==
  [doc EXCEPT !.status = newStatus,
              !.adminNotes = IF Truthy(adminNote)
                             THEN Append(@, [note |-> adminNote, addedBy |-> "Admin"])
                             ELSE @]

\* save() that writes the whole document held in memory
SaveWholeDocument(stored, loaded, doc) == doc

\* save() that puts the pushed entries in front ($position: 0)
SaveDeltaInFront(stored, loaded, doc) ==
  [stored EXCEPT
     !.status = IF doc.status # loaded.status THEN doc.status ELSE @,
     !.adminNotes = SubSeq(doc.adminNotes, Len(loaded.adminNotes) + 1,
                           Len(doc.adminNotes)) \o @]

\* this.save() of a loaded document writes what changed since it was loaded:
\* $set for a path whose value differs, $push for the entries pushed
SaveDelta(stored, loaded, doc) ==
  [stored EXCEPT
     !.status = IF doc.status # loaded.status THEN doc.status ELSE @,
     !.adminNotes = @ \o SubSeq(doc.adminNotes, Len(loaded.adminNotes) + 1,
                                Len(doc.adminNotes))]

\* the handler without the validStatuses test
updateRequestStatusUnchecked(p, id, status, adminNote) ==
  /\ Ready(p)
  /\ LET c == Call("updateRequestStatus", id, status, adminNote, NULL) IN
     IF ~IsObjectId(id)
     THEN Start(p, Done(c, Failure(500, "Failed to update request status", "CastError")))
     ELSE IF ~Exists(id)
     THEN Start(p, Done(c, Failure(404, "Service request not found", NULL)))
     ELSE Start(p, [c EXCEPT !.pc = "save", !.request = <<requests[id]>>,
                             !.oldStatus = requests[id].status])
  /\ UNCHANGED <<requests, catalog, now, users>>

\* the handler with a transition graph: delivered and cancelled are final
updateRequestStatusFinalStates(p, id, status, adminNote) ==
  /\ Ready(p)
  /\ LET c == Call("updateRequestStatus", id, status, adminNote, NULL) IN
     IF status \notin validStatuses
     THEN Start(p, Done(c, Failure(400, "Invalid status provided", NULL)))
     ELSE IF ~IsObjectId(id)
     THEN Start(p, Done(c, Failure(500, "Failed to update request status", "CastError")))
     ELSE IF ~Exists(id)
     THEN Start(p, Done(c, Failure(404, "Service request not found", NULL)))
     ELSE IF requests[id].status \in {"delivered", "cancelled"}
     THEN Start(p, Done(c, Failure(400, "Request is closed", NULL)))
     ELSE Start(p, [c EXCEPT !.pc = "save", !.request = <<requests[id]>>,
                             !.oldStatus = requests[id].status])
  /\ UNCHANGED <<requests, catalog, now, users>>

\* the handler with findById moved in front of the status check: an unknown
\* id is answered before the status is looked at
updateRequestStatusLookupFirst(p, id, status, adminNote) ==
  /\ Ready(p)
  /\ LET c == Call("updateRequestStatus", id, status, adminNote, NULL) IN
     IF ~IsObjectId(id)
     THEN Start(p, Done(c, Failure(500, "Failed to update request status", "CastError")))
     ELSE IF ~Exists(id)
     THEN Start(p, Done(c, Failure(404, "Service request not found", NULL)))
     ELSE IF status \notin validStatuses
     THEN Start(p, Done(c, Failure(400, "Invalid status provided", NULL)))
     ELSE Start(p, [c EXCEPT !.pc = "save", !.request = <<requests[id]>>,
                             !.oldStatus = requests[id].status])
  /\ UNCHANGED <<requests, catalog, now, users>>

\* PUT /admin/:id/status up to findById
updateRequestStatus(p, id, status, adminNote) ==
  /\ Ready(p)
  /\ LET c == Call("updateRequestStatus", id, status, adminNote, NULL) IN
     IF status \notin validStatuses
     THEN Start(p, Done(c, Failure(400, "Invalid status provided", NULL)))
     ELSE IF ~IsObjectId(id)
     THEN Start(p, Done(c, Failure(500, "Failed to update request status", "CastError")))
     ELSE IF ~Exists(id)
     THEN Start(p, Done(c, Failure(404, "Service request not found", NULL)))
     ELSE Start(p, [c EXCEPT !.pc = "save", !.request = <<requests[id]>>,
                             !.oldStatus = requests[id].status])
  /\ UNCHANGED <<requests, catalog, now, users>>

\* the save step without the oldStatus !== status test: the email is sent
\* after every save
updateRequestStatusSaveAlwaysMail(p) ==
  /\ calls[p].pc = "save" /\ calls[p].op = "updateRequestStatus"
  /\ LET c == calls[p]
         loaded == c.request[1]
         doc == updateStatus(loaded, c.status, c.note)
     IN
     /\ requests' = [requests EXCEPT ![c.id] = SaveDelta(@, loaded, doc)]
     /\ Move(p, [c EXCEPT !.pc = "email", !.request = <<doc>>,
                    !.sent = Append(@, Mail(doc.clientInfo.email,
                                            doc.clientInfo.fullName,
                                            doc.requestId, c.status, c.note))])
  /\ UNCHANGED <<catalog, now, ncalls, users>>

\* the save step as two writes: the status first, the pushed note in a
\* second write
updateRequestStatusSaveTwoWrites(p) ==
  /\ calls[p].pc = "save" /\ calls[p].op = "updateRequestStatus"
  /\ LET c == calls[p]
         loaded == c.request[1]
         doc == updateStatus(loaded, c.status, c.note)
     IN
     IF loaded.status # c.status
     THEN /\ requests' = [requests EXCEPT ![c.id].status = c.status]
          /\ Move(p, [c EXCEPT !.request = <<[loaded EXCEPT !.status = c.status]>>])
     ELSE /\ requests' = [requests EXCEPT ![c.id] = SaveDelta(@, loaded, doc)]
          /\ IF c.oldStatus # c.status
             THEN Move(p, [c EXCEPT !.pc = "email", !.request = <<doc>>,
                              !.sent = Append(@, Mail(doc.clientInfo.email,
                                                      doc.clientInfo.fullName,
                                                      doc.requestId, c.status, c.note))])
             ELSE Move(p, Done([c EXCEPT !.request = <<doc>>],
                         Response(200, "Request status updated successfully", <<doc>>)))
  /\ UNCHANGED <<catalog, now, ncalls, users>>

\* await request.updateStatus(status, adminNote), then the email is sent
\* when oldStatus !== status, else the response
updateRequestStatusSave(p) ==
  /\ calls[p].pc = "save" /\ calls[p].op = "updateRequestStatus"
  /\ LET c == calls[p]
         loaded == c.request[1]
         doc == updateStatus(loaded, c.status, c.note)
     IN
     /\ requests' = [requests EXCEPT ![c.id] = SaveDelta(@, loaded, doc)]
     /\ IF c.oldStatus # c.status
        THEN Move(p, [c EXCEPT !.pc = "email", !.request = <<doc>>,
                         !.sent = Append(@, Mail(doc.clientInfo.email,
                                                 doc.clientInfo.fullName,
                                                 doc.requestId, c.status, c.note))])
        ELSE Move(p, Done([c EXCEPT !.request = <<doc>>],
                    Response(200, "Request status updated successfully", <<doc>>)))
  /\ UNCHANGED <<catalog, now, ncalls, users>>

\* the rejected save with its error swallowed: the handler goes on as after
\* a save that succeeded
updateRequestStatusSaveRejectedSwallowed(p) ==
  /\ calls[p].pc = "save" /\ calls[p].op = "updateRequestStatus"
  /\ LET c == calls[p]
         doc == updateStatus(c.request[1], c.status, c.note)
     IN
     IF c.oldStatus # c.status
     THEN Move(p, [c EXCEPT !.pc = "email", !.request = <<doc>>,
                      !.sent = Append(@, Mail(doc.clientInfo.email,
                                              doc.clientInfo.fullName,
                                              doc.requestId, c.status, c.note))])
     ELSE Move(p, Done([c EXCEPT !.request = <<doc>>],
                 Response(200, "Request status updated successfully", <<doc>>)))
  /\ UNCHANGED <<requests, catalog, now, ncalls, users>>

\* await request.updateStatus(status, adminNote) when save() rejects (the
\* store cannot be reached or refuses the write): nothing is written and the
\* catch block answers 500
updateRequestStatusSaveRejected(p) ==
  /\ calls[p].pc = "save" /\ calls[p].op = "updateRequestStatus"
  /\ Move(p, Done(calls[p], Failure(500, "Failed to update request status",
                                    "store error")))
  /\ UNCHANGED <<requests, catalog, now, ncalls, users>>

\* the email step when a failed email fails the request: the status is put
\* back and the handler answers 500
updateRequestStatusEmailFatal(p, transport) ==
  /\ calls[p].pc = "email" /\ calls[p].op = "updateRequestStatus"
  /\ LET c == calls[p]
         emailResult == sendStatusUpdateEmail(c.sent[Len(c.sent)], transport)
     IN
     IF emailResult.success
     THEN /\ Move(p, Done([c EXCEPT !.emailResult = <<emailResult>>],
                    Response(200, "Request status updated successfully", c.request)))
          /\ UNCHANGED requests
     ELSE /\ Move(p, Done([c EXCEPT !.emailResult = <<emailResult>>],
                    Failure(500, "Failed to update request status", emailResult.error)))
          /\ requests' = [requests EXCEPT ![c.id].status = c.oldStatus]
  /\ UNCHANGED <<catalog, now, ncalls, users>>

\* the awaited sendStatusUpdateEmail returns; either result is logged and
\* the handler answers 200
updateRequestStatusEmail(p, transport) ==
  /\ calls[p].pc = "email" /\ calls[p].op = "updateRequestStatus"
  /\ LET c == calls[p]
         emailResult == sendStatusUpdateEmail(c.sent[Len(c.sent)], transport)
     IN Move(p, Done([c EXCEPT !.emailResult = <<emailResult>>],
               Response(200, "Request status updated successfully", c.request)))
  /\ UNCHANGED <<requests, catalog, now, ncalls, users>>

\* the handler without the validPriorities test and without runValidators
updateRequestPriorityUnchecked(p, id, priority) ==
  /\ Ready(p)
  /\ LET c == Call("updateRequestPriority", id, NULL, NULL, priority) IN
     IF ~IsObjectId(id)
     THEN /\ Start(p, Done(c, Failure(500, "Failed to update request priority", "CastError")))
          /\ UNCHANGED requests
     ELSE IF ~Exists(id)
     THEN /\ Start(p, Done(c, Failure(404, "Service request not found", NULL)))
          /\ UNCHANGED requests
     ELSE /\ requests' = [requests EXCEPT ![id].priority = priority]
          /\ Start(p, Done(c, Response(200, "Request priority updated successfully",
                                       <<requests'[id]>>)))
  /\ UNCHANGED <<catalog, now, users>>

\* ---------------------------------------------------- updateRequestPriority
\* PUT /admin/:id/priority: findByIdAndUpdate(id, {priority}, {new: true})
updateRequestPriority(p, id, priority) ==
  /\ Ready(p)
  /\ LET c == Call("updateRequestPriority", id, NULL, NULL, priority) IN
     IF priority \notin validPriorities
     THEN /\ Start(p, Done(c, Failure(400, "Invalid priority provided", NULL)))
          /\ UNCHANGED requests
     ELSE IF ~IsObjectId(id)
     THEN /\ Start(p, Done(c, Failure(500, "Failed to update request priority", "CastError")))
          /\ UNCHANGED requests
     ELSE IF ~Exists(id)
     THEN /\ Start(p, Done(c, Failure(404, "Service request not found", NULL)))
          /\ UNCHANGED requests
     ELSE /\ requests' = [requests EXCEPT ![id].priority = priority]
          /\ Start(p, Done(c, Response(200, "Request priority updated successfully",
                                       <<requests'[id]>>)))
  /\ UNCHANGED <<catalog, now, users>>

\* the handler without the default of addedBy
addAdminNoteNoDefault(p, id, note, addedBy) ==
  /\ Ready(p)
  /\ LET c == Call("addAdminNote", id, NULL, note, addedBy) IN
     IF ~Truthy(note)
     THEN Start(p, Done(c, Failure(400, "Note is required", NULL)))
     ELSE IF ~IsObjectId(id)
     THEN Start(p, Done(c, Failure(500, "Failed to add admin note", "CastError")))
     ELSE IF ~Exists(id)
     THEN Start(p, Done(c, Failure(404, "Service request not found", NULL)))
     ELSE Start(p, [c EXCEPT !.pc = "save", !.request = <<requests[id]>>])
  /\ UNCHANGED <<requests, catalog, now, users>>

\* ------------------------------------------------------------- addAdminNote
\* POST /admin/:id/notes up to findById; addedBy defaults to "Admin"
addAdminNote(p, id, note, addedBy) ==
  /\ Ready(p)
  /\ LET c == Call("addAdminNote", id, NULL, note,
                   IF addedBy = NULL THEN "Admin" ELSE addedBy) IN
     IF ~Truthy(note)
     THEN Start(p, Done(c, Failure(400, "Note is required", NULL)))
     ELSE IF ~IsObjectId(id)
     THEN Start(p, Done(c, Failure(500, "Failed to add admin note", "CastError")))
     ELSE IF ~Exists(id)
     THEN Start(p, Done(c, Failure(404, "Service request not found", NULL)))
     ELSE Start(p, [c EXCEPT !.pc = "save", !.request = <<requests[id]>>])
  /\ UNCHANGED <<requests, catalog, now, users>>

\* the save step followed by a status email about the note
addAdminNoteSaveNotifies(p) ==
  /\ calls[p].pc = "save" /\ calls[p].op = "addAdminNote"
  /\ LET c == calls[p]
         loaded == c.request[1]
         doc == [loaded EXCEPT !.adminNotes =
                   Append(@, [note |-> c.note, addedBy |-> c.arg])]
     IN
     /\ requests' = [requests EXCEPT ![c.id] = SaveDelta(@, loaded, doc)]
     /\ Move(p, Done([c EXCEPT !.request = <<doc>>,
                         !.sent = Append(@, Mail(doc.clientInfo.email,
                                                 doc.clientInfo.fullName,
                                                 doc.requestId, doc.status, c.note))],
               Response(200, "Admin note added successfully", <<doc>>)))
  /\ UNCHANGED <<catalog, now, ncalls, users>>

\* request.adminNotes.push({note, addedBy}); await request.save()
addAdminNoteSave(p) ==
  /\ calls[p].pc = "save" /\ calls[p].op = "addAdminNote"
  /\ LET c == calls[p]
         loaded == c.request[1]
         doc == [loaded EXCEPT !.adminNotes =
                   Append(@, [note |-> c.note, addedBy |-> c.arg])]
     IN
     /\ requests' = [requests EXCEPT ![c.id] = SaveDelta(@, loaded, doc)]
     /\ Move(p, Done([c EXCEPT !.request = <<doc>>],
               Response(200, "Admin note added successfully", <<doc>>)))
  /\ UNCHANGED <<catalog, now, ncalls, users>>

\* the handler without the test of assignedTo
assignRequestUnchecked(p, id, assignedTo) ==
  /\ Ready(p)
  /\ LET c == Call("assignRequest", id, NULL, NULL, assignedTo) IN
     IF ~IsObjectId(id)
     THEN /\ Start(p, Done(c, Failure(500, "Failed to assign request", "CastError")))
          /\ UNCHANGED requests
     ELSE IF ~Exists(id)
     THEN /\ Start(p, Done(c, Failure(404, "Service request not found", NULL)))
          /\ UNCHANGED requests
     ELSE /\ requests' = [requests EXCEPT ![id].assignedTo = assignedTo]
          /\ Start(p, Done(c, Response(200, "Request assigned successfully",
                                       <<requests'[id]>>)))
  /\ UNCHANGED <<catalog, now, users>>

\* the handler with the update {"clientInfo.fullName": assignedTo}
assignRequestToClient(p, id, assignedTo) ==
  /\ Ready(p)
  /\ LET c == Call("assignRequest", id, NULL, NULL, assignedTo) IN
     IF ~Truthy(assignedTo)
     THEN /\ Start(p, Done(c, Failure(400, "Assignee name is required", NULL)))
          /\ UNCHANGED requests
     ELSE IF ~IsObjectId(id)
     THEN /\ Start(p, Done(c, Failure(500, "Failed to assign request", "CastError")))
          /\ UNCHANGED requests
     ELSE IF ~Exists(id)
     THEN /\ Start(p, Done(c, Failure(404, "Service request not found", NULL)))
          /\ UNCHANGED requests
     ELSE /\ requests' = [requests EXCEPT ![id].clientInfo.fullName = assignedTo]
          /\ Start(p, Done(c, Response(200, "Request assigned successfully",
                                       <<requests'[id]>>)))
  /\ UNCHANGED <<catalog, now, users>>

\* ------------------------------------------------------------ assignRequest
\* PUT /admin/:id/assign: findByIdAndUpdate(id, {assignedTo}, {new: true})
assignRequest(p, id, assignedTo) ==
  /\ Ready(p)
  /\ LET c == Call("assignRequest", id, NULL, NULL, assignedTo) IN
     IF ~Truthy(assignedTo)
     THEN /\ Start(p, Done(c, Failure(400, "Assignee name is required", NULL)))
          /\ UNCHANGED requests
     ELSE IF ~IsObjectId(id)
     THEN /\ Start(p, Done(c, Failure(500, "Failed to assign request", "CastError")))
          /\ UNCHANGED requests
     ELSE IF ~Exists(id)
     THEN /\ Start(p, Done(c, Failure(404, "Service request not found", NULL)))
          /\ UNCHANGED requests
     ELSE /\ requests' = [requests EXCEPT ![id].assignedTo = assignedTo]
          /\ Start(p, Done(c, Response(200, "Request assigned successfully",
                                       <<requests'[id]>>)))
  /\ UNCHANGED <<catalog, now, users>>

\* the handler with findByIdAndDelete: the document leaves the collection
deleteRequestHard(p, id) ==
  /\ Ready(p)
  /\ LET c == Call("deleteRequest", id, "cancelled", NULL, NULL) IN
     IF ~IsObjectId(id)
     THEN /\ Start(p, Done(c, Failure(500, "Failed to cancel service request", "CastError")))
          /\ UNCHANGED requests
     ELSE IF ~Exists(id)
     THEN /\ Start(p, Done(c, Failure(404, "Service request not found", NULL)))
          /\ UNCHANGED requests
     ELSE /\ requests' = SubSeq(requests, 1, id - 1)
                            \o SubSeq(requests, id + 1, Len(requests))
          /\ Start(p, Done(c, Response(200, "Service request cancelled successfully",
                                       <<requests[id]>>)))
  /\ UNCHANGED <<catalog, now, users>>

\* ------------------------------------------------------------ deleteRequest
\* DELETE /admin/:id: findByIdAndUpdate(id, {status: "cancelled"}), then the
\* cancellation email is sent, whatever the status was
deleteRequest(p, id) ==
  /\ Ready(p)
  /\ LET c == Call("deleteRequest", id, "cancelled", NULL, NULL) IN
     IF ~IsObjectId(id)
     THEN /\ Start(p, Done(c, Failure(500, "Failed to cancel service request", "CastError")))
          /\ UNCHANGED requests
     ELSE IF ~Exists(id)
     THEN /\ Start(p, Done(c, Failure(404, "Service request not found", NULL)))
          /\ UNCHANGED requests
     ELSE /\ requests' = [requests EXCEPT ![id].status = "cancelled"]
          /\ LET doc == requests'[id] IN
             Start(p, [c EXCEPT !.pc = "email", !.request = <<doc>>,
                                !.oldStatus = requests[id].status,
                                !.sent = Append(@, Mail(doc.clientInfo.email,
                                                        doc.clientInfo.fullName,
                                                        doc.requestId, "cancelled",
                                                        NULL))])
  /\ UNCHANGED <<catalog, now, users>>

\* DELETE /admin/:id when findByIdAndUpdate rejects: nothing is written and
\* the catch block answers 500
deleteRequestRejected(p, id) ==
  /\ Ready(p)
  /\ Start(p, Done(Call("deleteRequest", id, "cancelled", NULL, NULL),
                   Failure(500, "Failed to cancel service request", "store error")))
  /\ UNCHANGED <<requests, catalog, now, users>>


deleteRequestEmail(p, transport) ==
  /\ calls[p].pc = "email" /\ calls[p].op = "deleteRequest"
  /\ LET c == calls[p]
         emailResult == sendStatusUpdateEmail(c.sent[Len(c.sent)], transport)
     IN Move(p, Done([c EXCEPT !.emailResult = <<emailResult>>],
               Response(200, "Service request cancelled successfully", c.request)))
  /\ UNCHANGED <<requests, catalog, now, ncalls, users>>

\* ---------------------------------------------------- getRequestByRequestId
\* the query without .select("-adminNotes")
SelectEverything(doc) == doc

\* .select("-adminNotes"): the document without its adminNotes field
SelectWithoutAdminNotes(doc) ==
  [f \in (DOMAIN doc) \ {"adminNotes"} |-> doc[f]]

\* GET /track/:requestId: findOne({requestId}), populate, select
getRequestByRequestId(p, requestId) ==
  /\ Ready(p)
  /\ LET c == Call("getRequestByRequestId", 0, NULL, NULL, requestId)
         found == {i \in 1..Len(requests) : requests[i].requestId = requestId}
     IN
     IF found = {}
     THEN Start(p, Done(c, Failure(404, "Service request not found", NULL)))
     ELSE LET i == CHOOSE k \in found : \A m \in found : k <= m IN
          Start(p, Done([c EXCEPT !.id = i],
                        Response(200, "", <<SelectWithoutAdminNotes(
                                              PopulateAll(requests[i], catalog))>>)))
  /\ UNCHANGED <<requests, catalog, now, users>>

\* ----------------------------------------------------------- admin readers
\* GET /admin/:id: findById, populate
getRequestById(p, id) ==
  /\ Ready(p)
  /\ LET c == Call("getRequestById", id, NULL, NULL, NULL) IN
     IF ~IsObjectId(id)
     THEN Start(p, Done(c, Failure(500, "Failed to fetch service request", "CastError")))
     ELSE IF ~Exists(id)
     THEN Start(p, Done(c, Failure(404, "Service request not found", NULL)))
     ELSE Start(p, Done([c EXCEPT !.request = <<requests[id]>>],
                        Response(200, "", <<PopulateAll(requests[id], catalog)>>)))
  /\ UNCHANGED <<requests, catalog, now, users>>

\* limit = 10 of req.query
DefaultLimit == 10

RECURSIVE NewestFirst(_)
\* sort({createdAt: -1}): requests are stored in the order of their creation
NewestFirst(ids) ==
  IF ids = {} THEN <<>>
  ELSE LET m == CHOOSE x \in ids : \A y \in ids : y <= x
       IN <<m>> \o NewestFirst(ids \ {m})

\* GET /admin?status=...: countDocuments(query), then find(query) populated,
\* newest first, the first page of DefaultLimit; a missing status selects
\* every request
getAllRequests(p, status) ==
  /\ Ready(p)
  /\ LET c == Call("getAllRequests", 0, status, NULL, NULL)
         found == {i \in 1..Len(requests) :
                     status = NULL \/ requests[i].status = status}
         order == NewestFirst(found)
         page == SubSeq(order, 1, IF Len(order) < DefaultLimit THEN Len(order)
                                  ELSE DefaultLimit)
     IN Start(p, Done([c EXCEPT !.request = [k \in 1..Len(page) |-> requests[page[k]]]],
                      Response(200, "", [k \in 1..Len(page) |->
                                           PopulateAll(requests[page[k]], catalog)])))
  /\ UNCHANGED <<requests, catalog, now, users>>

CountDocuments(field, value) ==
  Cardinality({i \in 1..Len(requests) : requests[i][field] = value})

\* GET /admin/dashboard-stats: eight countDocuments
getDashboardStats(p) ==
  /\ Ready(p)
  /\ LET c == Call("getDashboardStats", 0, NULL, NULL, NULL) IN
     Start(p, Done(c, Response(200, "",
       <<[submitted |-> CountDocuments("status", "submitted"),
          inProgress |-> CountDocuments("status", "in-progress"),
          completed |-> CountDocuments("status", "completed"),
          urgent |-> CountDocuments("priority", "urgent"),
          cancelled |-> CountDocuments("status", "cancelled"),
          reviewing |-> CountDocuments("status", "reviewing"),
          delivered |-> CountDocuments("status", "delivered"),
          total |-> Len(requests)]>>)))
  /\ UNCHANGED <<requests, catalog, now, users>>

\* isAdmin of the service-request routes: next() for every request, whatever
\* its Authorization header
isAdmin(authorization) == TRUE

\* ------------------------------------------------------------------- catalog
\* PATCH /api/services/:id/toggle-active
toggleServiceActive(id) ==
  /\ ncalls < MaxCalls
  /\ catalog[id] # "absent"
  /\ catalog' = [catalog EXCEPT ![id] = IF @ = "active" THEN "inactive" ELSE "active"]
  /\ ncalls' = ncalls + 1
  /\ UNCHANGED <<requests, now, calls, users>>

\* DELETE /api/services/:id: Service.findByIdAndDelete
deleteService(id) ==
  /\ ncalls < MaxCalls
  /\ catalog[id] # "absent"
  /\ catalog' = [catalog EXCEPT ![id] = "absent"]
  /\ ncalls' = ncalls + 1
  /\ UNCHANGED <<requests, now, calls, users>>

\* DELETE /api/combos/:id: Combo.findByIdAndDelete
deleteCombo(id) ==
  /\ ncalls < MaxCalls
  /\ catalog[id] # "absent"
  /\ catalog' = [catalog EXCEPT ![id] = "absent"]
  /\ ncalls' = ncalls + 1
  /\ UNCHANGED <<requests, now, calls, users>>

\* ---------------------------------------------------------- authentication
\* authController over the User collection.  Time is read from the same
\* clock; one tick of it stands for the ten minutes an OTP or a reset token
\* lasts.

\* 10 * 60 * 1000 ms, in ticks
OtpLifetime == 1

\* otpExpires / resetPasswordExpires of a user that has none
NoDate == -1

\* crypto.randomInt(100000, 999999).toString()
Otps == {"123456", "654321"}

\* the value {"$ne": null} in a JSON body: express.json() hands it to the
\* handler as an object, and findOne reads it as a query operator
NeNull == "{$ne: null}"

\* what a caller sends as otp
OtpInputs == Otps \cup {NeNull}

AuthEmails == {"ann@x.c"}

Secret == <<"s", "e", "c", "r", "e", "t", "1">>
Hunter == <<"h", "u", "n", "t", "e", "r", "2">>
Short == <<"a", "b", "c">>
TempPassword == <<"t", "e", "m", "p", "P", "a", "s", "s", "w", "o", "r", "d">>

\* crypto.randomBytes(32).toString("hex")
ResetTokens == {"9f3a"}

\* what a caller sends as reset token
ResetTokenInputs == ResetTokens \cup {"0000"}

\* the pre-save hook: bcrypt.hash(password, salt)
Hash(password) == <<"bcrypt">> \o password

\* userSchema.methods.comparePassword: bcrypt.compare
comparePassword(candidate, hashed) == hashed = Hash(candidate)

\* crypto.createHash("sha256").update(token).digest("hex")
Sha256(token) == "sha256 of " \o token

\* generateToken: jwt.sign({id: userId}, JWT_SECRET)
generateToken(userId) == [jwt |-> userId]

\* a condition of a findOne filter on a string path: a plain value matches
\* the same value, {$ne: null} matches every value that is set
QueryMatch(value, cond) ==
  IF cond = NeNull THEN value # NULL ELSE value = cond

User(id, email, name, password, otp, otpExpires, isVerified, token, tokenExpires) ==
  [_id |-> id, email |-> email, name |-> name, password |-> password,
   otp |-> otp, otpExpires |-> otpExpires, isVerified |-> isVerified,
   resetPasswordToken |-> token, resetPasswordExpires |-> tokenExpires]

\* req.body / req.params of the authentication routes
AuthBody(email, name, otp, password, token) ==
  [email |-> email, name |-> name, otp |-> otp, password |-> password,
   token |-> token]

FindByEmail(email) == {i \in 1..Len(users) : users[i].email = email}

First(found) == CHOOSE i \in found : \A j \in found : i <= j

\* POST /send-otp up to findOne: validation, the verified-user test, the new
\* OTP and its expiry on the user in memory
sendOtp(p, email, name) ==
  /\ Ready(p)
  /\ LET c == Call("sendOtp", 0, NULL, NULL, AuthBody(email, name, NULL, <<>>, NULL))
         found == FindByEmail(email)
     IN
     IF ~Truthy(email) \/ ~Truthy(name)
     THEN /\ Start(p, Done(c, Failure(400, "Please provide email and name.", NULL)))
          /\ UNCHANGED now
     ELSE IF found # {} /\ users[First(found)].isVerified
     THEN /\ Start(p, Done(c, Failure(400, "User already exists with this email.", NULL)))
          /\ UNCHANGED now
     ELSE \E otp \in Otps, t \in Ticks :
            LET user == IF found # {}
                        THEN [users[First(found)] EXCEPT !.name = name]
                        ELSE User(0, email, name, TempPassword, NULL, NoDate,
                                  FALSE, NULL, NoDate)
            IN
            /\ now' = t
            /\ Start(p, [c EXCEPT !.pc = "save", !.id = user._id,
                                  !.request = <<[user EXCEPT !.otp = otp,
                                                   !.otpExpires = t + OtpLifetime]>>])
  /\ UNCHANGED <<requests, catalog, users>>

\* await user.save(): an insert for a new user (the unique index on email
\* rejects a second one), else an update of name, otp and otpExpires
sendOtpSave(p) ==
  /\ calls[p].pc = "save" /\ calls[p].op = "sendOtp"
  /\ LET c == calls[p]
         user == c.request[1]
     IN
     IF c.id = 0
     THEN IF FindByEmail(user.email) # {}
          THEN /\ Move(p, Done(c, Failure(500, "Error sending OTP. Please try again.",
                                          "E11000 duplicate key")))
               /\ UNCHANGED users
          ELSE /\ users' = Append(users, [user EXCEPT !._id = Len(users) + 1,
                                                      !.password = Hash(@)])
               /\ Move(p, [c EXCEPT !.pc = "email", !.id = Len(users) + 1])
     ELSE /\ users' = [users EXCEPT ![c.id].name = user.name,
                                    ![c.id].otp = user.otp,
                                    ![c.id].otpExpires = user.otpExpires]
          /\ Move(p, [c EXCEPT !.pc = "email"])
  /\ UNCHANGED <<requests, catalog, now, ncalls>>

\* await sendEmail(...): its result is not looked at
sendOtpEmail(p, transport) ==
  /\ calls[p].pc = "email" /\ calls[p].op = "sendOtp"
  /\ Move(p, Done(calls[p], Response(200, "OTP sent to your email successfully.", NoData)))
  /\ UNCHANGED <<requests, catalog, now, ncalls, users>>

\* User.findOne({email, otp, otpExpires: {$gt: Date.now()}})
VerifyQuery(email, otp, t) ==
  {i \in 1..Len(users) :
     /\ users[i].email = email
     /\ QueryMatch(users[i].otp, otp)
     /\ users[i].otpExpires > t}

\* POST /verify-otp up to findOne
verifyOtpAndRegister(p, email, otp, password) ==
  /\ Ready(p)
  /\ LET c == Call("verifyOtpAndRegister", 0, NULL, NULL,
                   AuthBody(email, NULL, otp, password, NULL))
     IN
     IF ~Truthy(email) \/ ~Truthy(otp) \/ password = <<>>
     THEN /\ Start(p, Done(c, Failure(400, "Please provide email, OTP, and password.", NULL)))
          /\ UNCHANGED now
     ELSE IF Len(password) < 6
     THEN /\ Start(p, Done(c, Failure(400, "Password must be at least 6 characters long.",
                                      NULL)))
          /\ UNCHANGED now
     ELSE \E t \in Ticks :
            LET found == VerifyQuery(email, otp, t) IN
            /\ now' = t
            /\ IF found = {}
               THEN Start(p, Done(c, Failure(400, "Invalid or expired OTP.", NULL)))
               ELSE Start(p, [c EXCEPT !.pc = "save", !.id = First(found),
                                       !.request = <<users[First(found)]>>])
  /\ UNCHANGED <<requests, catalog, users>>

\* user.password = password; otp and otpExpires unset; isVerified = true;
\* await user.save(); the token
verifyOtpAndRegisterSave(p) ==
  /\ calls[p].pc = "save" /\ calls[p].op = "verifyOtpAndRegister"
  /\ LET c == calls[p] IN
     /\ users' = [users EXCEPT ![c.id].password = Hash(c.arg.password),
                               ![c.id].otp = NULL,
                               ![c.id].otpExpires = NoDate,
                               ![c.id].isVerified = TRUE]
     /\ Move(p, Done(c, Response(201, "Account created successfully.",
                                 <<[token |-> generateToken(c.id), id |-> c.id]>>)))
  /\ UNCHANGED <<requests, catalog, now, ncalls>>

\* POST /login
login(p, email, password) ==
  /\ Ready(p)
  /\ LET c == Call("login", 0, NULL, NULL, AuthBody(email, NULL, NULL, password, NULL))
         found == FindByEmail(email)
     IN
     IF ~Truthy(email) \/ password = <<>>
     THEN Start(p, Done(c, Failure(400, "Please provide email and password.", NULL)))
     ELSE IF found = {}
     THEN Start(p, Done(c, Failure(401, "Invalid credentials.", NULL)))
     ELSE IF ~users[First(found)].isVerified
     THEN Start(p, Done(c, Failure(401, "Please verify your email first.", NULL)))
     ELSE IF ~comparePassword(password, users[First(found)].password)
     THEN Start(p, Done(c, Failure(401, "Invalid credentials.", NULL)))
     ELSE Start(p, Done([c EXCEPT !.id = First(found)],
                        Response(200, "Login successful.",
                                 <<[token |-> generateToken(First(found)),
                                    id |-> First(found)]>>)))
  /\ UNCHANGED <<requests, catalog, now, users>>

\* POST /forgot-password up to findOne and createPasswordResetToken; the
\* plain token is kept for the email
forgotPassword(p, email) ==
  /\ Ready(p)
  /\ LET c == Call("forgotPassword", 0, NULL, NULL, AuthBody(email, NULL, NULL, <<>>, NULL))
         found == FindByEmail(email)
     IN
     IF ~Truthy(email)
     THEN /\ Start(p, Done(c, Failure(400, "Please provide email address.", NULL)))
          /\ UNCHANGED now
     ELSE IF found = {}
     THEN /\ Start(p, Done(c, Failure(404, "No user found with this email address.", NULL)))
          /\ UNCHANGED now
     ELSE IF ~users[First(found)].isVerified
     THEN /\ Start(p, Done(c, Failure(400, "Please verify your email first.", NULL)))
          /\ UNCHANGED now
     ELSE \E resetToken \in ResetTokens, t \in Ticks :
            /\ now' = t
            /\ Start(p, [c EXCEPT !.pc = "save", !.id = First(found), !.note = resetToken,
                           !.request = <<[users[First(found)] EXCEPT
                                            !.resetPasswordToken = Sha256(resetToken),
                                            !.resetPasswordExpires = t + OtpLifetime]>>])
  /\ UNCHANGED <<requests, catalog, users>>

\* await user.save({validateBeforeSave: false})
forgotPasswordSave(p) ==
  /\ calls[p].pc = "save" /\ calls[p].op = "forgotPassword"
  /\ LET c == calls[p]
         user == c.request[1]
     IN
     /\ users' = [users EXCEPT
                    ![c.id].resetPasswordToken = user.resetPasswordToken,
                    ![c.id].resetPasswordExpires = user.resetPasswordExpires]
     /\ Move(p, [c EXCEPT !.pc = "email"])
  /\ UNCHANGED <<requests, catalog, now, ncalls>>

\* await sendEmail(...) with the reset link
forgotPasswordEmail(p, transport) ==
  /\ calls[p].pc = "email" /\ calls[p].op = "forgotPassword"
  /\ Move(p, Done(calls[p], Response(200, "Password reset email sent successfully.", NoData)))
  /\ UNCHANGED <<requests, catalog, now, ncalls, users>>

\* PUT /reset-password/:token up to findOne
resetPassword(p, token, password) ==
  /\ Ready(p)
  /\ LET c == Call("resetPassword", 0, NULL, NULL,
                   AuthBody(NULL, NULL, NULL, password, token))
     IN
     IF password = <<>>
     THEN /\ Start(p, Done(c, Failure(400, "Please provide new password.", NULL)))
          /\ UNCHANGED now
     ELSE IF Len(password) < 6
     THEN /\ Start(p, Done(c, Failure(400, "Password must be at least 6 characters long.",
                                      NULL)))
          /\ UNCHANGED now
     ELSE \E t \in Ticks :
            LET found == {i \in 1..Len(users) :
                            /\ users[i].resetPasswordToken = Sha256(token)
                            /\ users[i].resetPasswordExpires > t}
            IN
            /\ now' = t
            /\ IF found = {}
               THEN Start(p, Done(c, Failure(400, "Token is invalid or has expired.", NULL)))
               ELSE Start(p, [c EXCEPT !.pc = "save", !.id = First(found),
                                       !.request = <<users[First(found)]>>])
  /\ UNCHANGED <<requests, catalog, users>>

\* user.password = password; the reset token unset; await user.save(); the
\* token
resetPasswordSave(p) ==
  /\ calls[p].pc = "save" /\ calls[p].op = "resetPassword"
  /\ LET c == calls[p] IN
     /\ users' = [users EXCEPT ![c.id].password = Hash(c.arg.password),
                               ![c.id].resetPasswordToken = NULL,
                               ![c.id].resetPasswordExpires = NoDate]
     /\ Move(p, Done(c, Response(200, "Password reset successful.",
                                 <<[token |-> generateToken(c.id), id |-> c.id]>>)))
  /\ UNCHANGED <<requests, catalog, now, ncalls>>

\* -------------------------------------------------------------------- system
\* the collection is empty, or holds one request that createRequest stored
\* earlier
SeedBodies ==
  {Body(TRUE, SelPath("cat1", "svc1", NULL), "service", TRUE, ValidClient,
        NULL, NULL, <<>>)}

Init ==
  /\ requests \in {<<>>} \cup {<<NewServiceRequest(b, [ts |-> 0, rnd |-> "K3F9"], 1)>> : b \in SeedBodies}
  /\ catalog = [x \in CatalogIds |-> IF x = "svc9" THEN "absent" ELSE "active"]
  /\ now = 0
  /\ calls = [p \in Workers |-> Idle]
  /\ ncalls = 0
  /\ users = <<>>

TargetIds == 1..(Len(requests) + 1)

\* a client tracks an id that createRequest can have issued by now
TrackIds == {rid \in RequestIds : rid.ts <= now}

Next ==
  \/ \E p \in Workers, body \in CoreBodies : createRequest(p, body)
  \/ \E p \in Workers : createRequestPopulate(p)
  \/ \E p \in Workers, id \in TargetIds, s \in StatusInputs, n \in NoteInputs :
       updateRequestStatus(p, id, s, n)
  \/ \E p \in Workers : updateRequestStatusSave(p)
  \/ \E p \in Workers, t \in Transports : updateRequestStatusEmail(p, t)
  \/ \E p \in Workers, id \in TargetIds, pr \in PriorityInputs :
       updateRequestPriority(p, id, pr)
  \/ \E p \in Workers, id \in TargetIds, n \in NoteInputs, by \in AddedByInputs :
       addAdminNote(p, id, n, by)
  \/ \E p \in Workers : addAdminNoteSave(p)
  \/ \E p \in Workers, id \in TargetIds, a \in AssigneeInputs :
       assignRequest(p, id, a)
  \/ \E p \in Workers, id \in TargetIds : deleteRequest(p, id)
  \/ \E p \in Workers, t \in Transports : deleteRequestEmail(p, t)
  \/ \E p \in Workers, rid \in TrackIds : getRequestByRequestId(p, rid)
  \/ \E id \in ServiceIds : deleteService(id)
  \/ \E id \in ComboIds : deleteCombo(id)

Spec == Init /\ [][Next]_vars

\* creation and tracking, over every body of Bodies
NextCreate ==
  \/ \E p \in Workers, body \in Bodies : createRequest(p, body)
  \/ \E p \in Workers : createRequestPopulate(p)
  \/ \E p \in Workers, rid \in TrackIds : getRequestByRequestId(p, rid)
  \/ \E id \in ServiceIds : toggleServiceActive(id)
  \/ \E id \in ServiceIds : deleteService(id)
  \/ \E id \in ComboIds : deleteCombo(id)

SpecCreate == Init /\ [][NextCreate]_vars

\* ids an admin call names: a stored request, the next id, an id that is
\* no ObjectId
AdminIds == TargetIds \cup {MalformedId}

\* a status of the enum, a value outside it, and no status
AdminStatusInputs == {"reviewing", "archived", NULL}

\* every priority of the enum, a value outside it, and no priority
AllPriorityInputs == validPriorities \cup {"critical", NULL}

AllNoteInputs == {NULL, "", "Looks good"}

AllAssigneeInputs == {NULL, "", "Ravi"}

\* status transitions alone, to every status of the enum
NextStatus ==
  \/ \E p \in Workers, id \in TargetIds, s \in validStatuses :
       updateRequestStatus(p, id, s, NULL)
  \/ \E p \in Workers : updateRequestStatusSave(p)
  \/ \E p \in Workers, t \in Transports : updateRequestStatusEmail(p, t)

SpecStatus == Init /\ [][NextStatus]_vars

\* the admin operations over every kind of id and argument
NextAdmin ==
  \/ \E p \in Workers, id \in AdminIds, s \in AdminStatusInputs, n \in NoteInputs :
       updateRequestStatus(p, id, s, n)
  \/ \E p \in Workers : updateRequestStatusSave(p)
  \/ \E p \in Workers, t \in Transports : updateRequestStatusEmail(p, t)
  \/ \E p \in Workers, id \in AdminIds, pr \in AllPriorityInputs :
       updateRequestPriority(p, id, pr)
  \/ \E p \in Workers, id \in AdminIds, n \in AllNoteInputs, by \in AddedByInputs :
       addAdminNote(p, id, n, by)
  \/ \E p \in Workers : addAdminNoteSave(p)
  \/ \E p \in Workers, id \in AdminIds, a \in AllAssigneeInputs :
       assignRequest(p, id, a)
  \/ \E p \in Workers, id \in AdminIds : deleteRequest(p, id)
  \/ \E p \in Workers, t \in Transports : deleteRequestEmail(p, t)

SpecAdmin == Init /\ [][NextAdmin]_vars

\* transitions with every kind of note, to the status the request has and to
\* another one, next to changes of priority and assignee
NextTransition ==
  \/ \E p \in Workers, id \in TargetIds, s \in {"submitted", "reviewing"},
        n \in AllNoteInputs : updateRequestStatus(p, id, s, n)
  \/ \E p \in Workers : updateRequestStatusSave(p)
  \/ \E p \in Workers, t \in Transports : updateRequestStatusEmail(p, t)
  \/ \E p \in Workers, id \in TargetIds : updateRequestPriority(p, id, "urgent")
  \/ \E p \in Workers, id \in TargetIds : assignRequest(p, id, "Ravi")

SpecTransition == Init /\ [][NextTransition]_vars

\* every operation on service requests, each with one accepted input
NextNotify ==
  \/ \E p \in Workers, body \in SeedBodies : createRequest(p, body)
  \/ \E p \in Workers : createRequestPopulate(p)
  \/ \E p \in Workers, rid \in TrackIds : getRequestByRequestId(p, rid)
  \/ \E p \in Workers, s \in {NULL, "submitted"} : getAllRequests(p, s)
  \/ \E p \in Workers : getDashboardStats(p)
  \/ \E p \in Workers, id \in TargetIds : updateRequestStatus(p, id, "reviewing", NULL)
  \/ \E p \in Workers : updateRequestStatusSave(p)
  \/ \E p \in Workers, t \in Transports : updateRequestStatusEmail(p, t)
  \/ \E p \in Workers, id \in TargetIds : updateRequestPriority(p, id, "urgent")
  \/ \E p \in Workers, id \in TargetIds : addAdminNote(p, id, "Looks good", NULL)
  \/ \E p \in Workers : addAdminNoteSave(p)
  \/ \E p \in Workers, id \in TargetIds : assignRequest(p, id, "Ravi")
  \/ \E p \in Workers, id \in TargetIds : deleteRequest(p, id)
  \/ \E p \in Workers, t \in Transports : deleteRequestEmail(p, t)

SpecNotify == Init /\ [][NextNotify]_vars

\* the User collection is empty, or holds the one user that sendOtp, then
\* verifyOtpAndRegister, then forgotPassword leave behind
SeedUsers ==
  { <<>>,
    <<User(1, "ann@x.c", "Ann", Hash(TempPassword), "123456", OtpLifetime,
           FALSE, NULL, NoDate)>>,
    <<User(1, "ann@x.c", "Ann", Hash(Secret), NULL, NoDate, TRUE, NULL, NoDate)>>,
    <<User(1, "ann@x.c", "Ann", Hash(Secret), NULL, NoDate, TRUE,
           Sha256("9f3a"), OtpLifetime)>> }

InitAuth ==
  /\ requests = <<>>
  /\ catalog = [x \in CatalogIds |-> IF x = "svc9" THEN "absent" ELSE "active"]
  /\ now = 0
  /\ calls = [p \in Workers |-> Idle]
  /\ ncalls = 0
  /\ users \in SeedUsers

\* the public authentication routes
NextAuth ==
  \/ \E p \in Workers, e \in AuthEmails : sendOtp(p, e, "Ann")
  \/ \E p \in Workers : sendOtpSave(p)
  \/ \E p \in Workers, t \in Transports : sendOtpEmail(p, t)
  \/ \E p \in Workers, e \in AuthEmails, otp \in OtpInputs, pw \in {Secret, Short} :
       verifyOtpAndRegister(p, e, otp, pw)
  \/ \E p \in Workers : verifyOtpAndRegisterSave(p)
  \/ \E p \in Workers, e \in AuthEmails, pw \in {Secret, Hunter} : login(p, e, pw)
  \/ \E p \in Workers, e \in AuthEmails : forgotPassword(p, e)
  \/ \E p \in Workers : forgotPasswordSave(p)
  \/ \E p \in Workers, t \in Transports : forgotPasswordEmail(p, t)
  \/ \E p \in Workers, tok \in ResetTokenInputs, pw \in {Secret, Hunter} :
       resetPassword(p, tok, pw)
  \/ \E p \in Workers : resetPasswordSave(p)

SpecAuth == InitAuth /\ [][NextAuth]_vars

\* the Authorization header of a caller that holds no token: none, or a
\* bearer token nobody issued
AnonymousAuthorizations == {NULL, "Bearer forged"}

\* the admin routes called by callers without a token: isAdmin, then the
\* handler
NextAnonymous ==
  \/ \E p \in Workers, a \in AnonymousAuthorizations, s \in {NULL, "submitted"} :
       isAdmin(a) /\ getAllRequests(p, s)
  \/ \E p \in Workers, a \in AnonymousAuthorizations :
       isAdmin(a) /\ getDashboardStats(p)
  \/ \E p \in Workers, a \in AnonymousAuthorizations, id \in TargetIds :
       isAdmin(a) /\ getRequestById(p, id)
  \/ \E p \in Workers, a \in AnonymousAuthorizations, id \in TargetIds,
        s \in {"reviewing"}, n \in NoteInputs :
       isAdmin(a) /\ updateRequestStatus(p, id, s, n)
  \/ \E p \in Workers : updateRequestStatusSave(p)
  \/ \E p \in Workers, t \in Transports : updateRequestStatusEmail(p, t)
  \/ \E p \in Workers, a \in AnonymousAuthorizations, id \in TargetIds :
       isAdmin(a) /\ updateRequestPriority(p, id, "urgent")
  \/ \E p \in Workers, a \in AnonymousAuthorizations, id \in TargetIds :
       isAdmin(a) /\ addAdminNote(p, id, "Looks good", NULL)
  \/ \E p \in Workers : addAdminNoteSave(p)
  \/ \E p \in Workers, a \in AnonymousAuthorizations, id \in TargetIds :
       isAdmin(a) /\ assignRequest(p, id, "Ravi")
  \/ \E p \in Workers, a \in AnonymousAuthorizations, id \in TargetIds :
       isAdmin(a) /\ deleteRequest(p, id)
  \/ \E p \in Workers, t \in Transports : deleteRequestEmail(p, t)

SpecAnonymous == Init /\ [][NextAnonymous]_vars

\* transporter.sendMail never settles (the provider accepts the connection
\* and stays silent): createTransporter sets no timeout and the handlers
\* await sendStatusUpdateEmail without one, so the call waits for good
sendMailNeverSettles(p) ==
  /\ calls[p].pc = "email"
  /\ Move(p, [calls[p] EXCEPT !.pc = "hung"])
  /\ UNCHANGED <<requests, catalog, now, ncalls, users>>

\* transitions and cancellations with a mail provider that answers, fails
\* or stays silent
NextGateway ==
  \/ \E p \in Workers, id \in TargetIds, s \in {"reviewing", "cancelled"} :
       updateRequestStatus(p, id, s, NULL)
  \/ \E p \in Workers : updateRequestStatusSave(p)
  \/ \E p \in Workers, t \in Transports : updateRequestStatusEmail(p, t)
  \/ \E p \in Workers, id \in TargetIds : deleteRequest(p, id)
  \/ \E p \in Workers, t \in Transports : deleteRequestEmail(p, t)
  \/ \E p \in Workers : sendMailNeverSettles(p)

\* the event loop runs the continuation of every await that has settled
FairGateway ==
  \A p \in Workers :
    /\ WF_vars(updateRequestStatusSave(p))
    /\ WF_vars(\E t \in Transports : updateRequestStatusEmail(p, t))
    /\ WF_vars(\E t \in Transports : deleteRequestEmail(p, t))

SpecGateway == Init /\ [][NextGateway]_vars /\ FairGateway

\* transitions and cancellations against a store whose writes can fail
NextStore ==
  \/ \E p \in Workers, id \in TargetIds, s \in {"reviewing", "cancelled"},
        n \in NoteInputs : updateRequestStatus(p, id, s, n)
  \/ \E p \in Workers : updateRequestStatusSave(p)
  \/ \E p \in Workers : updateRequestStatusSaveRejected(p)
  \/ \E p \in Workers, t \in Transports : updateRequestStatusEmail(p, t)
  \/ \E p \in Workers, id \in TargetIds : deleteRequest(p, id)
  \/ \E p \in Workers, id \in TargetIds : deleteRequestRejected(p, id)
  \/ \E p \in Workers, t \in Transports : deleteRequestEmail(p, t)

SpecStore == Init /\ [][NextStore]_vars

\* =================================================================== claims
Finished(p, op) == calls[p].pc = "done" /\ calls[p].op = op

\* worker p takes a step of handler op in this transition
Steps(p, op) == calls'[p] # calls[p] /\ calls'[p].op = op

\* worker p starts a call of handler op in this transition
Starts(p, op) ==
  /\ Ready(p)
  /\ ncalls' = ncalls + 1
  /\ calls' # calls
  /\ calls'[p].op = op

IsPrefix(s, t) == Len(s) <= Len(t) /\ SubSeq(t, 1, Len(s)) = s

\* C1: when the status-update email of an updateRequestStatus call fails,
\* the step that receives the failure leaves the collection as the save left
\* it and answers 200 with the new status; the save that precedes the email
\* has stored the new status.
C1_NotificationIsolation ==
  [][\A p \in Workers :
       /\ (Steps(p, "updateRequestStatus") /\ calls'[p].pc = "email")
            => requests'[calls'[p].id].status = calls'[p].status
       /\ (Steps(p, "updateRequestStatus") /\ calls[p].pc = "email"
             /\ ~calls'[p].emailResult[1].success)
            => /\ requests' = requests
               /\ calls'[p].pc = "done"
               /\ calls'[p].res.status = 200
               /\ calls'[p].res.data[1].status = calls[p].status]_vars

C1_Witness ==
  \E p \in Workers :
    /\ Finished(p, "updateRequestStatus")
    /\ calls[p].emailResult # <<>>
    /\ ~calls[p].emailResult[1].success
    /\ calls[p].res.status = 200
    /\ requests[calls[p].id].status = calls[p].status

\* C2: an updateRequestStatus call that is past its save and whose status
\* differs from the status of the request it loaded has made exactly one call
\* of sendStatusUpdateEmail, with the stored client's email and name, the
\* stored requestId, the new status and the adminNote of the call.
C2_OneNotificationPerChange ==
  \A p \in Workers :
    (/\ calls[p].op = "updateRequestStatus"
     /\ calls[p].pc \in {"email", "done"}
     /\ calls[p].res.status \in {0, 200}
     /\ calls[p].oldStatus # calls[p].status)
    => calls[p].sent =
         <<[clientEmail |-> requests[calls[p].id].clientInfo.email,
            clientName |-> requests[calls[p].id].clientInfo.fullName,
            requestId |-> requests[calls[p].id].requestId,
            status |-> calls[p].status,
            adminNote |-> calls[p].note]>>

C2_Witness ==
  \E p \in Workers :
    /\ Finished(p, "updateRequestStatus")
    /\ calls[p].res.status = 200
    /\ calls[p].oldStatus # calls[p].status
    /\ calls[p].note = "Looks good"
    /\ Len(calls[p].sent) = 1

\* C3: the save step of an updateRequestStatus call whose status equals the
\* status of the request it loaded calls sendStatusUpdateEmail not at all,
\* leaves the stored status as it was, and answers 200 with that status.
C3_NoOpTransition ==
  [][\A p \in Workers :
       (/\ Steps(p, "updateRequestStatus")
        /\ calls[p].pc = "save"
        /\ calls[p].oldStatus = calls[p].status)
       => /\ calls'[p].sent = <<>>
          /\ calls'[p].pc = "done"
          /\ calls'[p].res.status = 200
          /\ calls'[p].res.data[1].status = calls[p].status
          /\ requests'[calls[p].id].status = requests[calls[p].id].status]_vars

C3_Witness ==
  \E p \in Workers :
    /\ Finished(p, "updateRequestStatus")
    /\ calls[p].res.status = 200
    /\ calls[p].oldStatus = calls[p].status
    /\ requests[calls[p].id].status = calls[p].status
    /\ calls[p].sent = <<>>

RefPaths == {"selectedCategory", "selectedService", "selectedTemplate", "selectedCombo"}

\* the answer of a getRequestByRequestId step that found request i
Tracked(p) == calls'[p].res.data[1]

TrackStep(p) ==
  /\ Steps(p, "getRequestByRequestId")
  /\ calls'[p].res.status = 200

\* C4 as claimed: a successful getRequestByRequestId returns no adminNotes
\* and returns every other field as stored, a reference counting as stored
\* when the returned document carries the stored identifier.
C4_Original ==
  [][\A p \in Workers :
       TrackStep(p) =>
         LET stored == requests[calls'[p].id] IN
         /\ "adminNotes" \notin DOMAIN Tracked(p)
         /\ \A f \in (DOMAIN stored) \ {"adminNotes", "selectionPath"} :
              Tracked(p)[f] = stored[f]
         /\ \A r \in RefPaths :
              Tracked(p).selectionPath[r]._id = stored.selectionPath[r]]_vars

\* C4 as amended: no adminNotes, every field other than selectionPath as
\* stored, and each reference of selectionPath resolved against the catalog:
\* {_id, title} of the entry, or null when the entry does not exist.
C4_ClientSafeProjection ==
  [][\A p \in Workers :
       TrackStep(p) =>
         LET stored == requests[calls'[p].id] IN
         /\ "adminNotes" \notin DOMAIN Tracked(p)
         /\ DOMAIN Tracked(p) = (DOMAIN stored) \ {"adminNotes"}
         /\ \A f \in (DOMAIN stored) \ {"adminNotes", "selectionPath"} :
              Tracked(p)[f] = stored[f]
         /\ \A r \in RefPaths :
              LET ref == stored.selectionPath[r] IN
              IF ref # NULL /\ catalog[ref] # "absent"
              THEN /\ Tracked(p).selectionPath[r]._id = ref
                   /\ Tracked(p).selectionPath[r].title = Title(ref)
              ELSE Tracked(p).selectionPath[r] = NullRef]_vars

C4_Witness ==
  \E p \in Workers :
    /\ Finished(p, "getRequestByRequestId")
    /\ calls[p].res.status = 200
    /\ requests[calls[p].id].adminNotes # <<>>
    /\ "adminNotes" \notin DOMAIN calls[p].res.data[1]

\* C5: no step shortens the adminNotes of a stored request, and no step
\* removes a request.
C5_NotesNeverShrink ==
  [][/\ Len(requests') >= Len(requests)
     /\ \A i \in 1..Len(requests) :
          Len(requests'[i].adminNotes) >= Len(requests[i].adminNotes)]_vars

C5_Witness ==
  \E i \in 1..Len(requests), p \in Workers :
    /\ Len(requests[i].adminNotes) >= 2
    /\ Finished(p, "updateRequestStatus")
    /\ calls[p].id = i
    /\ calls[p].res.status = 200
    /\ calls[p].note = "Looks good"

\* C6: across every step the adminNotes of a stored request before the step
\* are a prefix of its adminNotes after it, and a save that adds an entry
\* adds the entry of its own call as the last one.
C6_NotesAppendOrder ==
  [][\A i \in 1..Len(requests) :
       /\ IsPrefix(requests[i].adminNotes, requests'[i].adminNotes)
       /\ requests'[i].adminNotes # requests[i].adminNotes
            => \E p \in Workers :
                 /\ calls[p].pc = "save" /\ calls'[p].pc # "save" /\ calls[p].id = i
                 /\ requests'[i].adminNotes =
                      Append(requests[i].adminNotes,
                             [note |-> calls[p].note,
                              addedBy |-> IF calls[p].op = "addAdminNote"
                                          THEN calls[p].arg ELSE "Admin"])]_vars

C6_Witness ==
  \E i \in 1..Len(requests), p \in Workers :
    /\ Len(requests[i].adminNotes) = 2
    /\ requests[i].adminNotes[1].addedBy # requests[i].adminNotes[2].addedBy
    /\ Finished(p, "addAdminNote")
    /\ calls[p].id = i
    /\ requests[i].adminNotes[2] = [note |-> calls[p].note, addedBy |-> calls[p].arg]

\* the step in which createRequest stores a request
CreateStores(p) == Steps(p, "createRequest") /\ Len(requests') = Len(requests) + 1

\* C7: the request that a createRequest step stores has status submitted,
\* priority medium and no adminNotes, whatever status, priority and
\* adminNotes the body carries.
C7_CreateDefaults ==
  [][\A p \in Workers :
       CreateStores(p) =>
         LET doc == requests'[Len(requests')] IN
         /\ doc.status = "submitted"
         /\ doc.priority = "medium"
         /\ doc.adminNotes = <<>>]_vars

C7_Witness ==
  \E p \in Workers :
    /\ Finished(p, "createRequest")
    /\ calls[p].res.status = 201
    /\ calls[p].arg.status = "completed"
    /\ calls[p].arg.priority = "urgent"
    /\ calls[p].arg.adminNotes # <<>>
    /\ requests[calls[p].request[1]._id].status = "submitted"

\* C8 as claimed: the request that a createRequest step stores refers, by
\* the path its requestType names, to a catalog entry that exists and is
\* active.
C8_SelectionReferencesActiveEntry ==
  [][\A p \in Workers :
       CreateStores(p) =>
         LET doc == requests'[Len(requests')] IN
         /\ doc.requestType = "service"
              => /\ doc.selectionPath.selectedService # NULL
                 /\ catalog[doc.selectionPath.selectedService] = "active"
         /\ doc.requestType = "combo"
              => /\ doc.selectionPath.selectedCombo # NULL
                 /\ catalog[doc.selectionPath.selectedCombo] = "active"]_vars

\* the body lacks the selection its requestType requires
MissingSelection(body) ==
  \/ /\ body.requestType = "combo"
     /\ (~body.hasSelectionPath \/ body.selectionPath.selectedCombo = NULL)
  \/ /\ body.requestType = "service"
     /\ (~body.hasSelectionPath \/ body.selectionPath.selectedCategory = NULL
         \/ body.selectionPath.selectedService = NULL)

SelectionMessages ==
  {"Category and Service selection is required for service requests",
   "Combo selection is required for combo requests",
   "Selection path, request type, and client info are required"}

\* the body passes the checks of validateServiceRequest
PassesMiddleware(body) ==
  /\ body.hasSelectionPath /\ body.requestType # NULL /\ body.hasClientInfo
  /\ body.clientInfo.fullName # "" /\ body.clientInfo.email # <<>>
  /\ body.clientInfo.phone # <<>>

\* C9 as claimed: createRequest on a body that lacks the selection its
\* requestType requires answers 400 with a message about the selection and
\* stores nothing.
C9_Original ==
  [][\A p \in Workers :
       (Steps(p, "createRequest") /\ calls[p].pc # "populate"
          /\ MissingSelection(calls'[p].arg))
       => /\ calls'[p].res.status = 400
          /\ calls'[p].res.message \in SelectionMessages
          /\ requests' = requests]_vars

\* C9 as amended: such a call answers 400 and stores nothing; the message
\* is the one of the missing selection when the body passes
\* validateServiceRequest, and the message of validateServiceRequest
\* otherwise.
C9_MissingSelectionRejected ==
  [][\A p \in Workers :
       (Steps(p, "createRequest") /\ calls[p].pc # "populate"
          /\ MissingSelection(calls'[p].arg))
       => /\ calls'[p].res.status = 400
          /\ requests' = requests
          /\ calls'[p].res.message =
               IF ~PassesMiddleware(calls'[p].arg)
               THEN validateServiceRequest(calls'[p].arg).message
               ELSE IF calls'[p].arg.requestType = "combo"
               THEN "Combo selection is required for combo requests"
               ELSE "Category and Service selection is required for service requests"]_vars

C9_Witness ==
  \E p \in Workers :
    /\ Finished(p, "createRequest")
    /\ calls[p].arg.requestType = "combo"
    /\ calls[p].arg.hasSelectionPath
    /\ calls[p].arg.selectionPath.selectedCombo = NULL
    /\ calls[p].res.status = 400
    /\ calls[p].res.message = "Combo selection is required for combo requests"

\* the clientInfo or requestType of the body is one the schema rejects
MalformedClientOrType(body) ==
  \/ ~body.hasClientInfo
  \/ body.clientInfo.fullName = ""
  \/ body.clientInfo.email = <<>> \/ ~EmailMatch(body.clientInfo.email)
  \/ body.clientInfo.phone = <<>> \/ ~PhoneMatch(body.clientInfo.phone)
  \/ body.requestType \notin requestTypeEnum

\* C10 as claimed: createRequest on a body whose clientInfo lacks a required
\* field, has a malformed email or phone, or whose requestType is outside
\* the enum answers with a 4xx status and stores nothing.
C10_MalformedClientRejected4xx ==
  [][\A p \in Workers :
       (Steps(p, "createRequest") /\ calls[p].pc # "populate"
          /\ MalformedClientOrType(calls'[p].arg))
       => /\ calls'[p].res.status \in 400..499
          /\ requests' = requests]_vars

\* C11: an updateRequestStatus call whose status is none of the seven values
\* is answered 400 "Invalid status provided" in the step that starts it,
\* whatever its id: no request is loaded, no email is sent and the collection
\* is unchanged.
C11_InvalidStatusRejected ==
  [][\A p \in Workers :
       (Starts(p, "updateRequestStatus") /\ calls'[p].status \notin validStatuses)
       => /\ calls'[p].pc = "done"
          /\ calls'[p].res.status = 400
          /\ calls'[p].res.message = "Invalid status provided"
          /\ calls'[p].request = <<>>
          /\ calls'[p].sent = <<>>
          /\ requests' = requests]_vars

C11_Witness ==
  \E p \in Workers :
    /\ Finished(p, "updateRequestStatus")
    /\ calls[p].status = "archived"
    /\ calls[p].note = "Looks good"
    /\ Exists(calls[p].id)
    /\ calls[p].res.status = 400
    /\ requests[calls[p].id].status = "submitted"
    /\ requests[calls[p].id].adminNotes = <<>>

\* the handlers that change one request named by :id
AdminOps ==
  {"updateRequestStatus", "updateRequestPriority", "addAdminNote",
   "assignRequest", "deleteRequest"}

\* the arguments of the call pass the handler's own validation
ValidArguments(c) ==
  /\ c.op = "updateRequestStatus" => c.status \in validStatuses
  /\ c.op = "updateRequestPriority" => c.arg \in validPriorities
  /\ c.op = "addAdminNote" => Truthy(c.note)
  /\ c.op = "assignRequest" => Truthy(c.arg)

\* C12 as claimed: a call of updateRequestStatus, updateRequestPriority,
\* addAdminNote, assignRequest or deleteRequest with valid arguments and an
\* id that matches no stored request is answered 404 in the step that starts
\* it, sends no email and leaves the collection unchanged.
C12_UnknownIdNotFound ==
  [][\A p \in Workers, op \in AdminOps :
       (Starts(p, op) /\ ~Exists(calls'[p].id) /\ ValidArguments(calls'[p]))
       => /\ calls'[p].pc = "done"
          /\ calls'[p].res.status = 404
          /\ calls'[p].sent = <<>>
          /\ requests' = requests]_vars

\* C13: an updateRequestStatus call to a status t of the enum on a stored
\* request is accepted whatever the status s of the request; its save step,
\* when the request is stored with the status s the call loaded, stores
\* status t; and the call ends with 200 and status t in its answer.
C13_TransitionGraphComplete ==
  [][\A p \in Workers :
       /\ (Starts(p, "updateRequestStatus") /\ Exists(calls'[p].id)
             /\ calls'[p].status \in validStatuses)
            => /\ calls'[p].pc = "save"
               /\ calls'[p].oldStatus = requests[calls'[p].id].status
       /\ (Steps(p, "updateRequestStatus") /\ calls[p].pc = "save"
             /\ requests[calls[p].id].status = calls[p].oldStatus)
            => requests'[calls[p].id].status = calls[p].status
       /\ (Steps(p, "updateRequestStatus") /\ calls[p].pc \in {"save", "email"}
             /\ calls'[p].pc = "done")
            => /\ calls'[p].res.status = 200
               /\ calls'[p].res.data[1].status = calls[p].status]_vars

C13_Witness ==
  \E p \in Workers :
    /\ Finished(p, "updateRequestStatus")
    /\ calls[p].oldStatus = "cancelled"
    /\ calls[p].status = "submitted"
    /\ calls[p].res.status = 200
    /\ requests[calls[p].id].status = "submitted"

\* C14 as claimed: the step in which deleteRequest acts on a stored request
\* leaves the collection as updateStatus("cancelled") without a note and its
\* save would, and issues the cancellation email exactly when the status of
\* the request was not cancelled already.
C14_CancelIsTransitionToCancelled ==
  [][\A p \in Workers :
       (Starts(p, "deleteRequest") /\ Exists(calls'[p].id)) =>
         LET id == calls'[p].id
             loaded == requests[id]
             doc == updateStatus(loaded, "cancelled", NULL)
         IN
         /\ requests' = [requests EXCEPT ![id] = SaveDelta(@, loaded, doc)]
         /\ (calls'[p].sent # <<>>) <=> (loaded.status # "cancelled")
         /\ calls'[p].sent # <<>>
              => calls'[p].sent = <<Mail(loaded.clientInfo.email, loaded.clientInfo.fullName,
                                         loaded.requestId, "cancelled", NULL)>>]_vars

\* C15: no step removes a stored request or puts another one in its place
\* (every stored request keeps its _id and requestId), and the step in which
\* deleteRequest acts on a stored request changes nothing but the status of
\* that request, to cancelled.
C15_NoHardDeletion ==
  [][/\ Len(requests') >= Len(requests)
     /\ \A i \in 1..Len(requests) :
          /\ requests'[i]._id = requests[i]._id
          /\ requests'[i].requestId = requests[i].requestId
     /\ \A p \in Workers :
          (Starts(p, "deleteRequest") /\ Exists(calls'[p].id))
          => requests' = [requests EXCEPT ![calls'[p].id].status = "cancelled"]]_vars

C15_Witness ==
  \E p \in Workers :
    /\ Finished(p, "deleteRequest")
    /\ calls[p].res.status = 200
    /\ Exists(calls[p].id)
    /\ requests[calls[p].id].status = "cancelled"
    /\ Len(requests) = 2

\* the body passes the middleware, the selection check and the schema
AcceptedBody(body) ==
  /\ validateServiceRequest(body).status = 0
  /\ SelectionCheck(body).status = 0
  /\ InvalidPaths(body.selectionPath, body.requestType, body.clientInfo) = {}

\* C16 as claimed: no two stored requests have the same requestId, and a
\* createRequest call on a body that passes validation stores a request,
\* under a requestId that no stored request has.
C16_RequestIdsDistinct ==
  [][/\ \A i, j \in 1..Len(requests') :
          requests'[i].requestId = requests'[j].requestId => i = j
     /\ \A p \in Workers :
          (Starts(p, "createRequest") /\ AcceptedBody(calls'[p].arg))
          => /\ Len(requests') = Len(requests) + 1
             /\ calls'[p].pc = "populate"
             /\ \A i \in 1..Len(requests) :
                  requests[i].requestId # requests'[Len(requests')].requestId]_vars

ImmutablePaths ==
  {"requestId", "requestType", "selectionPath", "clientInfo", "requirements"}

\* C17: across every step, every stored request keeps its requestId,
\* requestType, selectionPath, clientInfo and requirements.
C17_ImmutableAfterCreation ==
  [][\A i \in 1..Len(requests) :
       /\ i <= Len(requests')
       /\ \A f \in ImmutablePaths : requests'[i][f] = requests[i][f]]_vars

C17_Witness ==
  \E i \in 1..Len(requests) :
    /\ requests[i].status = "cancelled"
    /\ requests[i].assignedTo = "Ravi"
    /\ requests[i].requestType = "service"
    /\ requests[i].selectionPath = SelPath("cat1", "svc1", NULL)
    /\ requests[i].clientInfo = ValidClient
    /\ requests[i].requirements = Requirements

\* C18: an updateRequestPriority call with a priority outside low, medium,
\* high, urgent is answered 400 and changes nothing; with a priority of that
\* set on a stored request it stores the priority, leaves every other field
\* of the request (status, adminNotes, assignedTo among them) and every other
\* request as they were, sends no email and answers 200 with the request.
C18_UpdatePriority ==
  [][\A p \in Workers :
       Starts(p, "updateRequestPriority") =>
         LET c == calls'[p] IN
         /\ c.pc = "done"
         /\ c.sent = <<>>
         /\ c.arg \notin validPriorities
              => c.res.status = 400 /\ requests' = requests
         /\ (c.arg \in validPriorities /\ Exists(c.id))
              => /\ requests' = [requests EXCEPT ![c.id].priority = c.arg]
                 /\ requests'[c.id].status = requests[c.id].status
                 /\ requests'[c.id].adminNotes = requests[c.id].adminNotes
                 /\ requests'[c.id].assignedTo = requests[c.id].assignedTo
                 /\ c.res.status = 200
                 /\ c.res.data = <<requests'[c.id]>>]_vars

C18_Witness ==
  \E p \in Workers :
    /\ Finished(p, "updateRequestPriority")
    /\ calls[p].arg = "urgent"
    /\ calls[p].res.status = 200
    /\ requests[calls[p].id].priority = "urgent"
    /\ requests[calls[p].id].assignedTo = "Ravi"
    /\ requests[calls[p].id].status = "submitted"

\* C19: an addAdminNote call with an empty or missing note is answered 400
\* and changes nothing; with a non-empty note on a stored request it goes on
\* to its save, which appends exactly the entry {note, addedBy} of the call
\* (addedBy is Admin when the call names nobody) at the end of the stored
\* adminNotes, leaves every other field of the request (status, priority,
\* assignedTo among them) and every other request as they were, and answers
\* 200.
C19_AppendNote ==
  [][\A p \in Workers :
       /\ Starts(p, "addAdminNote") =>
            LET c == calls'[p] IN
            /\ requests' = requests
            /\ c.arg \in {"Admin"} \cup (AddedByInputs \ {NULL})
            /\ ~Truthy(c.note) => c.pc = "done" /\ c.res.status = 400
            /\ (Truthy(c.note) /\ Exists(c.id)) => c.pc = "save"
       /\ (Steps(p, "addAdminNote") /\ calls[p].pc = "save") =>
            LET c == calls[p] IN
            /\ requests' = [requests EXCEPT ![c.id].adminNotes =
                              Append(@, [note |-> c.note, addedBy |-> c.arg])]
            /\ requests'[c.id].status = requests[c.id].status
            /\ requests'[c.id].priority = requests[c.id].priority
            /\ requests'[c.id].assignedTo = requests[c.id].assignedTo
            /\ calls'[p].pc = "done"
            /\ calls'[p].res.status = 200]_vars

C19_Witness ==
  \E p \in Workers :
    /\ Finished(p, "addAdminNote")
    /\ calls[p].res.status = 200
    /\ calls[p].arg = "Admin"
    /\ requests[calls[p].id].adminNotes =
         <<[note |-> "Looks good", addedBy |-> "Priya"],
           [note |-> "Looks good", addedBy |-> "Admin"]>>
    /\ requests[calls[p].id].status = "submitted"

\* C20: an assignRequest call with an empty or missing assignedTo is
\* answered 400 and changes nothing; with a non-empty assignedTo on a stored
\* request it stores assignedTo, leaves every other field of the request
\* (status, priority, adminNotes among them) and every other request as they
\* were, sends no email and answers 200 with the request.
C20_Assign ==
  [][\A p \in Workers :
       Starts(p, "assignRequest") =>
         LET c == calls'[p] IN
         /\ c.pc = "done"
         /\ c.sent = <<>>
         /\ ~Truthy(c.arg)
              => c.res.status = 400 /\ requests' = requests
         /\ (Truthy(c.arg) /\ Exists(c.id))
              => /\ requests' = [requests EXCEPT ![c.id].assignedTo = c.arg]
                 /\ requests'[c.id].status = requests[c.id].status
                 /\ requests'[c.id].priority = requests[c.id].priority
                 /\ requests'[c.id].adminNotes = requests[c.id].adminNotes
                 /\ c.res.status = 200
                 /\ c.res.data = <<requests'[c.id]>>]_vars

C20_Witness ==
  \E p \in Workers :
    /\ Finished(p, "assignRequest")
    /\ calls[p].arg = "Ravi"
    /\ calls[p].res.status = 200
    /\ requests[calls[p].id].assignedTo = "Ravi"
    /\ requests[calls[p].id].priority = "urgent"
    /\ requests[calls[p].id].adminNotes = <<>>

\* C21: the save step of an updateRequestStatus call that carries a note
\* writes the status of the call and appends the note {note, addedBy: Admin}
\* in one step and changes nothing else; no other step of the call writes to
\* the collection, so no state holds the one without the other.
C21_StatusAndNoteInOneWrite ==
  [][\A p \in Workers :
       /\ (Steps(p, "updateRequestStatus") /\ calls[p].pc = "save"
             /\ Truthy(calls[p].note))
            => LET c == calls[p] IN
               /\ calls'[p].pc # "save"
               /\ requests' =
                    [requests EXCEPT
                       ![c.id].status = IF c.status # c.oldStatus THEN c.status ELSE @,
                       ![c.id].adminNotes =
                          Append(@, [note |-> c.note, addedBy |-> "Admin"])]
       /\ (Steps(p, "updateRequestStatus") /\ calls[p].pc # "save")
            => requests' = requests]_vars

C21_Witness ==
  \E p \in Workers :
    /\ Finished(p, "updateRequestStatus")
    /\ calls[p].res.status = 200
    /\ calls[p].oldStatus = "submitted"
    /\ calls[p].status = "reviewing"
    /\ requests[calls[p].id].status = "reviewing"
    /\ requests[calls[p].id].adminNotes = <<[note |-> "Looks good", addedBy |-> "Admin"]>>

\* the handlers that load a request with findById and write it with save()
ReadThenWriteOps == {"updateRequestStatus", "addAdminNote"}

\* C22 as claimed: every mutating operation is one atomic read-modify-write:
\* when a call writes, the request is stored as the call read it (no write of
\* another call fell between its read and its write), and the request in its
\* answer is the request as stored after the write.
C22_AtomicReadModifyWrite ==
  [][\A p \in Workers, op \in ReadThenWriteOps :
       (Steps(p, op) /\ calls[p].pc = "save")
       => /\ requests[calls[p].id] = calls[p].request[1]
          /\ calls'[p].request[1] = requests'[calls[p].id]]_vars

NotifyingOps == {"updateRequestStatus", "deleteRequest"}

\* C23: a step in which an updateRequestStatus or deleteRequest call issues
\* its email leaves the request stored with the status of the call; and a
\* call that was to change the status (the status it asks for is not the
\* one it loaded) and ends its write without the status being stored (the
\* write failed) answers with a 5xx status and has sent no email.
C23_PersistBeforeNotify ==
  [][\A p \in Workers, op \in NotifyingOps :
       /\ (Steps(p, op) /\ Len(calls'[p].sent) > Len(calls[p].sent))
            => /\ Exists(calls'[p].id)
               /\ requests'[calls'[p].id].status = calls'[p].status
       /\ (Steps(p, op) /\ calls[p].pc \in {"idle", "done", "save"}
             /\ calls'[p].pc \in {"email", "done"}
             /\ Exists(calls'[p].id) /\ calls'[p].status \in validStatuses
             /\ calls'[p].oldStatus # calls'[p].status
             /\ requests'[calls'[p].id].status # calls'[p].status)
            => /\ calls'[p].pc = "done"
               /\ calls'[p].res.status \in 500..599
               /\ calls'[p].sent = <<>>]_vars

C23_Witness ==
  \E p \in Workers :
    /\ Finished(p, "updateRequestStatus")
    /\ calls[p].request # <<>>
    /\ calls[p].res.status = 500
    /\ calls[p].sent = <<>>
    /\ calls[p].oldStatus = "submitted"
    /\ calls[p].status = "reviewing"
    /\ requests[calls[p].id].status = "submitted"

\* C24 as claimed: every updateRequestStatus or deleteRequest call that
\* waits for its email eventually answers its caller, whatever the mail
\* provider does.
C24_ResponseDespiteSilentGateway ==
  \A p \in Workers :
    (calls[p].pc = "email") ~> (calls[p].pc = "done")

\* the handlers behind the admin routes
AdminEndpoints ==
  AdminOps \cup {"getAllRequests", "getRequestById", "getDashboardStats"}

\* C25 as claimed: a call of an admin route by a caller without a valid
\* bearer token (every call of SpecAnonymous) is turned away: it is answered
\* 401, loads no request, returns no data and leaves the collection
\* unchanged.
C25_AdminRoutesRequireToken ==
  [][\A p \in Workers, op \in AdminEndpoints :
       Starts(p, op)
       => /\ calls'[p].pc = "done"
          /\ calls'[p].res.status = 401
          /\ calls'[p].request = <<>>
          /\ calls'[p].res.data = NoData
          /\ requests' = requests]_vars

\* C26: the save step of an updateRequestStatus call stores the status of the
\* call (also when the request has that status already), appends exactly one
\* entry {note, addedBy: Admin} when the call carries a non-empty note and no
\* entry otherwise, and leaves priority, assignedTo and everything else as
\* stored; the call ends with 200 and the status of the call in its answer.
\* The stored status is the one of the call whenever the request is stored
\* with the status the call loaded.
C26_TransitionEffect ==
  [][\A p \in Workers :
       /\ (Steps(p, "updateRequestStatus") /\ calls[p].pc = "save") =>
            LET c == calls[p]
                i == calls[p].id
            IN
            /\ requests' =
                 [requests EXCEPT
                    ![i].status = IF c.status # c.oldStatus THEN c.status ELSE @,
                    ![i].adminNotes =
                       IF c.note \notin {NULL, ""}
                       THEN Append(@, [note |-> c.note, addedBy |-> "Admin"])
                       ELSE @]
            /\ requests[i].status = c.oldStatus => requests'[i].status = c.status
            /\ requests'[i].priority = requests[i].priority
            /\ requests'[i].assignedTo = requests[i].assignedTo
       /\ (Steps(p, "updateRequestStatus") /\ calls[p].pc \in {"save", "email"}
             /\ calls'[p].pc = "done")
            => /\ calls'[p].res.status = 200
               /\ calls'[p].res.data[1].status = calls[p].status]_vars

C26_Witness ==
  \E p \in Workers :
    /\ Finished(p, "updateRequestStatus")
    /\ calls[p].res.status = 200
    /\ calls[p].note = ""
    /\ calls[p].oldStatus = "submitted"
    /\ calls[p].status = "submitted"
    /\ requests[calls[p].id].status = "submitted"
    /\ requests[calls[p].id].adminNotes = <<>>
    /\ requests[calls[p].id].priority = "urgent"

\* C27: in every state every stored request has a status of the seven values
\* and a priority of low, medium, high, urgent; and the status of a stored
\* request changes only in the save step of an updateRequestStatus call on
\* that request or in the step of a deleteRequest call on it.
C27_EnumInvariants ==
  /\ [](\A i \in 1..Len(requests) :
          /\ requests[i].status \in validStatuses
          /\ requests[i].priority \in validPriorities)
  /\ [][\A i \in 1..Len(requests) :
          requests'[i].status # requests[i].status
          => \E p \in Workers :
               \/ /\ Steps(p, "updateRequestStatus")
                  /\ calls[p].pc = "save"
                  /\ calls[p].id = i
               \/ /\ Starts(p, "deleteRequest")
                  /\ calls'[p].id = i]_vars

C27_Witness ==
  \E i \in 1..Len(requests), p \in Workers :
    /\ requests[i].status = "reviewing"
    /\ requests[i].priority = "urgent"
    /\ Finished(p, "updateRequestPriority")
    /\ calls[p].id = i

\* C28: only updateRequestStatus and deleteRequest call
\* sendStatusUpdateEmail: a step in which a call issues an email is a step of
\* one of the two, and a call of createRequest, updateRequestPriority,
\* addAdminNote, assignRequest, getAllRequests, getRequestByRequestId or
\* getDashboardStats has issued none in any state.
C28_OnlyTransitionAndCancelNotify ==
  /\ [](\A p \in Workers :
          calls[p].op \notin NotifyingOps
          => calls[p].sent = <<>> /\ calls[p].emailResult = <<>>)
  /\ [][\A p \in Workers :
          Len(calls'[p].sent) > Len(calls[p].sent)
          => calls'[p].op \in NotifyingOps]_vars

C28_Witness ==
  \E p \in Workers, i \in 1..Len(requests) :
    /\ Finished(p, "addAdminNote")
    /\ calls[p].res.status = 200
    /\ calls[p].sent = <<>>
    /\ calls[p].id = i
    /\ requests[i].adminNotes # <<>>
    /\ requests[i].assignedTo = "Ravi"

\* C29 as claimed: an updateRequestStatus call issues its email only in a
\* step in which its write changes the stored status of the request, so the
\* emails issued for a request never outnumber the changes of its stored
\* status.
C29_NotificationOnlyOnStoredChange ==
  [][\A p \in Workers :
       (Steps(p, "updateRequestStatus")
          /\ Len(calls'[p].sent) > Len(calls[p].sent))
       => requests'[calls[p].id].status # requests[calls[p].id].status]_vars

TokenOps == {"verifyOtpAndRegister", "login", "resetPassword"}

\* worker p answers with an auth token in this transition
IssuesToken(p) ==
  /\ calls'[p] # calls[p]
  /\ calls'[p].op \in TokenOps
  /\ calls'[p].pc = "done"
  /\ calls'[p].res.status \in {200, 201}

\* C30 as claimed: a token is issued for a user only when the user is
\* verified; a user becomes verified only in the save of a
\* verifyOtpAndRegister call, and such a call gets to its save only when the
\* otp it presents is the one stored for its email and the stored expiry lies
\* ahead; the save clears the stored otp, and a verifyOtpAndRegister call for
\* an email that has no otp stored is answered 400.
C30_TokenOnlyAfterOtpVerification ==
  [][/\ \A p \in Workers :
          /\ IssuesToken(p) => users'[calls'[p].id].isVerified
          /\ (Starts(p, "verifyOtpAndRegister") /\ calls'[p].pc = "save") =>
               LET user == users[calls'[p].id] IN
               /\ user.email = calls'[p].arg.email
               /\ user.otp = calls'[p].arg.otp
               /\ user.otpExpires > now'
          /\ (Steps(p, "verifyOtpAndRegister") /\ calls[p].pc = "save") =>
               /\ users'[calls[p].id].otp = NULL
               /\ IssuesToken(p)
          /\ (Starts(p, "verifyOtpAndRegister")
                /\ \A i \in FindByEmail(calls'[p].arg.email) : users[i].otp = NULL)
               => /\ calls'[p].pc = "done"
                  /\ calls'[p].res.status = 400
     /\ \A i \in 1..Len(users') :
          (users'[i].isVerified /\ (i > Len(users) \/ ~users[i].isVerified))
          => \E p \in Workers :
               /\ Steps(p, "verifyOtpAndRegister")
               /\ calls[p].pc = "save"
               /\ calls[p].id = i]_vars

====
